---------------------------- MODULE Spec2Model ----------------------------
(***************************************************************************)
(* A model of the spike-cli multiplexing engine: the name namespacer, the  *)
(* upstream fleet manager (ServerManager), the toolset controller          *)
(* (ToolsetManager) and the agent loop (runAgentLoop).                     *)
(*                                                                         *)
(* Strings are sequences of one-character strings, so that prefix tests    *)
(* and slices are computed as the code computes them.                      *)
(***************************************************************************)
EXTENDS Integers, Sequences, FiniteSets, TLC

VARIABLES
    nsIn,           \* namespacer: the inputs of one namespaceTool/parse round
    nsOut,          \* namespacer: the outputs computed from nsIn
    upstreams,      \* ServerManager.upstreams: Map name -> UpstreamClient
    serverConfigs,  \* ServerManager.serverConfigs: Map name -> ServerConfig
    currentConfig,  \* the ResolvedConfig the caller applied last
    lastOp,         \* the fleet operation that returned last, and what it did
    options,        \* ServerManager.separator and ServerManager.noPrefix
    toolsetManager, \* ServerManager._toolsetManager, and its toolsets
    loadedToolsets, \* ToolsetManager.loadedToolsets
    lastCall,       \* the catalog call that returned last, and its result
    chain,          \* a caller applying configs C1, C2, C3 one after another
    tasks,          \* the fleet operations in progress, one per caller
    concStart,      \* the fleet on which the callers started their operations
    messages,       \* AgentLoopContext.messages: the chat history
    loop,           \* runAgentLoop: its position and its locals
    session,        \* startChatRepl: its SessionState
    repl,           \* startChatRepl: the lines read, the slash call in flight
    edge,           \* the downstream server: its transport, its last reply
    sched,          \* ReconnectManager: its retry table and its timers
    http,           \* startHttpServer: its session map and its transports
    registry,       \* AppRegistryImpl: its apps and its two indices
    watcher,        \* ConfigWatcher: its timers, its reloads, its deliveries
    fan,            \* a connectAll or closeAll in progress
    vis,            \* the tools listed for the session
    disc,           \* discoverConfig: its last run
    glob,           \* matchesGlob: its last call
    fuzzy           \* fuzzyScore and fuzzyFilter: the last call

nsVars == <<nsIn, nsOut>>
fleetVars == <<upstreams, serverConfigs, currentConfig, lastOp>>
catVars == <<options, toolsetManager, loadedToolsets, lastCall>>
\* What the actions of one component leave alone.
concVars == <<tasks, concStart>>
loopVars == <<messages, loop>>
replVars == <<session, repl>>
pureVars == <<glob, fuzzy>>
moreVars == <<registry, watcher, fan, vis, disc, pureVars>>
netVars == <<edge, sched, http, moreVars>>
otherVars == <<replVars, netVars>>
outsideNs == <<fleetVars, catVars, chain, concVars, loopVars, otherVars>>
outsideFleet == <<nsVars, catVars, chain, concVars, loopVars, otherVars>>
outsideCatalog == <<nsVars, chain, concVars, loopVars, otherVars>>
outsideCompose == <<nsVars, catVars, concVars, loopVars, otherVars>>
outsideConc == <<nsVars, catVars, chain, loopVars, otherVars>>
outsideLoop == <<nsVars, chain, concVars, repl, netVars>>
outsideRepl == <<nsVars, chain, concVars, netVars>>
outsideEdge == <<nsVars, chain, concVars, loopVars, replVars, sched, http,
                 moreVars>>
outsideScheduler == <<nsVars, fleetVars, catVars, chain, concVars, loopVars,
                      replVars, edge, http, moreVars>>
outsideHttp == <<nsVars, fleetVars, catVars, chain, concVars, loopVars,
                 replVars, edge, sched, moreVars>>
outsideRegistry == <<nsVars, fleetVars, catVars, chain, concVars, loopVars,
                     replVars, edge, sched, http, watcher, fan, vis, disc,
                     pureVars>>
outsideWatcher == <<nsVars, fleetVars, catVars, chain, concVars, loopVars,
                    replVars, edge, sched, http, registry, fan, vis, disc,
                    pureVars>>
outsideFan == <<nsVars, catVars, chain, concVars, loopVars, replVars,
                edge, sched, http, registry, watcher, vis, disc, pureVars>>
outsideVis == <<nsVars, fleetVars, catVars, chain, concVars, loopVars,
                edge, sched, http, registry, watcher, fan, disc, pureVars>>
outsideDiscovery == <<nsVars, fleetVars, catVars, chain, concVars, loopVars,
                      replVars, edge, sched, http, registry, watcher, fan,
                      vis, pureVars>>
outsideGlob == <<nsVars, fleetVars, catVars, chain, concVars, loopVars,
                 replVars, edge, sched, http, registry, watcher, fan, vis,
                 disc, fuzzy>>
outsideFuzzy == <<nsVars, fleetVars, catVars, chain, concVars, loopVars,
                  replVars, edge, sched, http, registry, watcher, fan, vis,
                  disc, glob>>

vars == <<nsIn, nsOut, upstreams, serverConfigs, currentConfig, lastOp,
          options, toolsetManager, loadedToolsets, lastCall, chain,
          tasks, concStart, messages, loop, session, repl, edge, sched,
          http, registry, watcher, fan, vis, disc, glob, fuzzy>>

(***************************************************************************)
(* Generic helpers.                                                        *)
(***************************************************************************)
Range(f) == {f[i] : i \in DOMAIN f}

\* All sequences over S of length 0..n.
SeqsUpTo(S, n) == UNION {[1..k -> S] : k \in 0..n}

\* String.prototype.startsWith
StartsWith(str, prefix) ==
    /\ Len(prefix) <= Len(str)
    /\ SubSeq(str, 1, Len(prefix)) = prefix

\* String.prototype.slice(n): the string from offset n on.
SliceFrom(str, n) == SubSeq(str, n + 1, Len(str))

(***************************************************************************)
(* 4.A Name namespacer (multiplexer/namespace.ts).                         *)
(***************************************************************************)
DEFAULT_SEPARATOR == <<"_", "_">>

namespaceTool(serverName, toolName, separator) ==
    serverName \o separator \o toolName

\* Array.prototype.sort((a, b) => b.length - a.length): a stable sort by
\* length, longest first.  Insert(x, sorted) puts x after every element that
\* is at least as long, which keeps the input order among equal lengths.
RECURSIVE InsertByLength(_, _)
InsertByLength(x, sorted) ==
    IF sorted = <<>> THEN <<x>>
    ELSE IF Len(Head(sorted)) >= Len(x)
         THEN <<Head(sorted)>> \o InsertByLength(x, Tail(sorted))
         ELSE <<x>> \o sorted

RECURSIVE SortByLengthDesc(_)
SortByLengthDesc(servers) ==
    IF servers = <<>> THEN <<>>
    ELSE InsertByLength(servers[Len(servers)],
                        SortByLengthDesc(SubSeq(servers, 1, Len(servers) - 1)))

\* The value parseNamespacedTool returns for "no match" (null).
ParseNull == [ok |-> FALSE, serverName |-> <<>>, toolName |-> <<>>]

RECURSIVE FirstPrefixMatch(_, _, _)
FirstPrefixMatch(namespacedName, sorted, separator) ==
    IF sorted = <<>> THEN ParseNull
    ELSE LET prefix == Head(sorted) \o separator IN
         IF StartsWith(namespacedName, prefix)
         THEN [ok |-> TRUE, serverName |-> Head(sorted),
               toolName |-> SliceFrom(namespacedName, Len(prefix))]
         ELSE FirstPrefixMatch(namespacedName, Tail(sorted), separator)

parseNamespacedTool(namespacedName, knownServers, separator) ==
    FirstPrefixMatch(namespacedName, SortByLengthDesc(knownServers), separator)

stripNamespace(namespacedName, serverName, separator) ==
    LET prefix == serverName \o separator IN
    IF StartsWith(namespacedName, prefix)
    THEN SliceFrom(namespacedName, Len(prefix))
    ELSE namespacedName

(***************************************************************************)
(* The namespacer as a state machine: Init draws a server name u, a tool   *)
(* name t, a separator s and a known-server list K that contains u; the    *)
(* actions apply namespaceTool, then parseNamespacedTool / stripNamespace. *)
(***************************************************************************)
MaxNameLen == 2

NsChars == {"a", "_"}
NsServerNames == SeqsUpTo(NsChars, MaxNameLen) \ {<<>>}
NsToolNames == SeqsUpTo({"x", "_"}, MaxNameLen)
NsSeparators == {DEFAULT_SEPARATOR, <<":">>}

\* Known-server lists: the keys of a Map, so without repetition.
NsKnownLists ==
    {<<u>> : u \in NsServerNames}
    \cup {K \in NsServerNames \X NsServerNames : K[1] # K[2]}

NsIdle == [phase |-> "idle"]

NsInputs ==
    {[phase |-> "in", u |-> p[1][p[2]], t |-> t, s |-> s, K |-> p[1]] :
        p \in {q \in NsKnownLists \X (1..2) : q[2] <= Len(q[1])},
        t \in NsToolNames, s \in NsSeparators}

NsInit ==
    /\ nsIn \in NsInputs
    /\ nsOut = [phase |-> "none"]

NsIdleInit ==
    /\ nsIn = NsIdle
    /\ nsOut = [phase |-> "none"]

NsNamespace ==
    /\ nsIn.phase = "in"
    /\ nsOut.phase = "none"
    /\ nsOut' = [phase |-> "named",
                 wire |-> namespaceTool(nsIn.u, nsIn.t, nsIn.s)]
    /\ UNCHANGED <<nsIn, outsideNs>>

NsParse ==
    /\ nsOut.phase = "named"
    /\ nsOut' = [phase |-> "parsed", wire |-> nsOut.wire,
                 parsed |-> parseNamespacedTool(nsOut.wire, nsIn.K, nsIn.s),
                 stripped |-> stripNamespace(nsOut.wire, nsIn.u, nsIn.s)]
    /\ UNCHANGED <<nsIn, outsideNs>>

NextNs == NsNamespace \/ NsParse


(***************************************************************************)
(* 4.B Tool filter (util/glob.ts).                                         *)
(***************************************************************************)
\* The characters of the class /[.+^${}()|[\]\\]/ that matchesGlob escapes.
GlobEscaped ==
    {".", "+", "^", "$", "{", "}", "(", ")", "|", "[", "]", "\\"}

\* pattern.replace(/[.+^${}()|[\]\\]/g, "\\$&")
RECURSIVE EscapeSpecials(_)
EscapeSpecials(pattern) ==
    IF pattern = <<>> THEN <<>>
    ELSE (IF Head(pattern) \in GlobEscaped
          THEN <<"\\", Head(pattern)>> ELSE <<Head(pattern)>>)
         \o EscapeSpecials(Tail(pattern))

\* escaped.replace(/\*/g, ".*")
RECURSIVE StarToDotStar(_)
StarToDotStar(escaped) ==
    IF escaped = <<>> THEN <<>>
    ELSE (IF Head(escaped) = "*" THEN <<".", "*">> ELSE <<Head(escaped)>>)
         \o StarToDotStar(Tail(escaped))

\* new RegExp(`^${source}$`) for the sources matchesGlob builds: a sequence
\* of items [any, ch, quant], an atom ("." or a character, escaped or not)
\* with its quantifier "1", "?" or "*"; a quantifier may be followed by one
\* "?" (lazy, the same matches when anchored), and a quantifier with no atom
\* to repeat is a SyntaxError (ok = FALSE).
RegExpItem(any, ch, quant) == [any |-> any, ch |-> ch, quant |-> quant]

RECURSIVE RegExpParse(_, _)
RegExpParse(source, items) ==
    IF source = <<>> THEN [ok |-> TRUE, items |-> items]
    ELSE IF Head(source) \in {"*", "?"}
    THEN [ok |-> FALSE, items |-> <<>>]
    ELSE LET esc == Head(source) = "\\"
             atom == IF esc THEN RegExpItem(FALSE, source[2], "1")
                     ELSE RegExpItem(Head(source) = ".", Head(source), "1")
             after == SliceFrom(source, IF esc THEN 2 ELSE 1)
             quantified == after # <<>> /\ Head(after) \in {"*", "?"}
             afterQuant == IF quantified THEN Tail(after) ELSE after
             lazy == quantified /\ afterQuant # <<>> /\ Head(afterQuant) = "?"
         IN  RegExpParse(IF lazy THEN Tail(afterQuant) ELSE afterQuant,
                         Append(items, IF quantified
                                       THEN [atom EXCEPT !.quant = Head(after)]
                                       ELSE atom))

\* One character against one atom ("." matches all but line terminators,
\* which the names of the model do not hold).
AtomFits(item, c) == item.any \/ item.ch = c

\* regex.test(name) for an anchored sequence of items.
RECURSIVE RegExpTest(_, _)
RegExpTest(items, name) ==
    IF items = <<>> THEN name = <<>>
    ELSE LET item == Head(items) IN
         CASE item.quant = "1" ->
                 /\ name # <<>>
                 /\ AtomFits(item, Head(name))
                 /\ RegExpTest(Tail(items), Tail(name))
           [] item.quant = "?" ->
                 \/ RegExpTest(Tail(items), name)
                 \/ /\ name # <<>>
                    /\ AtomFits(item, Head(name))
                    /\ RegExpTest(Tail(items), Tail(name))
           [] OTHER ->
                 \E k \in 0..Len(name) :
                    /\ \A i \in 1..k : AtomFits(item, name[i])
                    /\ RegExpTest(Tail(items), SliceFrom(name, k))

\* The regular expression of a pattern.
GlobRegExp(pattern) ==
    RegExpParse(StarToDotStar(EscapeSpecials(pattern)), <<>>)

\* matchesGlob throws the SyntaxError of new RegExp.
GlobThrows(pattern) == ~GlobRegExp(pattern).ok

\* matchesGlob(name, pattern), for a pattern on which it does not throw.
matchesGlob(name, pattern) ==
    /\ GlobRegExp(pattern).ok
    /\ RegExpTest(GlobRegExp(pattern).items, name)

matchesAnyGlob(name, patterns) ==
    \E i \in DOMAIN patterns : matchesGlob(name, patterns[i])

\* The tool filter of a server config (ToolFilterConfig), or "no filter".
NoFilter == [present |-> FALSE, allowed |-> <<>>, blocked |-> <<>>]

\* filterTools on a list of tool names.
filterTools(tools, config) ==
    IF ~config.present THEN tools
    ELSE LET afterAllowed ==
                 IF Len(config.allowed) > 0
                 THEN SelectSeq(tools, LAMBDA t : matchesAnyGlob(t, config.allowed))
                 ELSE tools
         IN  IF Len(config.blocked) > 0
             THEN SelectSeq(afterAllowed,
                            LAMBDA t : ~matchesAnyGlob(t, config.blocked))
             ELSE afterAllowed

(***************************************************************************)
(* Server configs (config/types.ts).  A ServerConfig is a JSON object: its *)
(* keys in insertion order, and the value of each key.  A key that is not  *)
(* listed in `keys` is absent, whatever the record holds for it.           *)
(***************************************************************************)
CfgV1 == [keys |-> <<"command", "args">>, command |-> "v1",
          args |-> <<"x">>, tools |-> NoFilter]

\* The same value as CfgV1, its keys written in the other order.
CfgV1r == [keys |-> <<"args", "command">>, command |-> "v1",
           args |-> <<"x">>, tools |-> NoFilter]

\* A config with a tool filter that blocks the tools named "_*".
CfgV2 == [keys |-> <<"command", "tools">>, command |-> "v2",
          args |-> <<>>,
          tools |-> [present |-> TRUE, allowed |-> <<>>,
                     blocked |-> << <<"_", "*">> >>]]

\* A config whose command cannot be spawned: connect() rejects.
CfgBad == [keys |-> <<"command">>, command |-> "bad",
           args |-> <<>>, tools |-> NoFilter]

ServerConfigs == {CfgV1, CfgV1r, CfgV2, CfgBad}

\* The value of a config, key order forgotten.
ConfigValue(config) ==
    [command |-> config.command,
     args |-> IF "args" \in Range(config.keys) THEN config.args ELSE <<"absent">>,
     tools |-> IF "tools" \in Range(config.keys) THEN config.tools ELSE NoFilter,
     keys |-> Range(config.keys)]

RECURSIVE Flatten(_)
Flatten(seqs) ==
    IF seqs = <<>> THEN <<>> ELSE Head(seqs) \o <<",">> \o Flatten(Tail(seqs))

\* JSON.stringify of one key's value, as a list of tokens.
StringifyKey(config, key) ==
    <<key, ":">> \o
    CASE key = "command" -> <<config.command>>
      [] key = "args"    -> <<"[">> \o config.args \o <<"]">>
      [] key = "tools"   -> <<"{", "allowed", ":", "[">> \o Flatten(config.tools.allowed)
                            \o <<"]", "blocked", ":", "[">>
                            \o Flatten(config.tools.blocked) \o <<"]", "}">>

RECURSIVE StringifyKeys(_, _)
StringifyKeys(config, keys) ==
    IF keys = <<>> THEN <<>>
    ELSE StringifyKey(config, Head(keys)) \o <<",">>
         \o StringifyKeys(config, Tail(keys))

\* JSON.stringify(config): the keys in insertion order.
JSONstringify(config) == <<"{">> \o StringifyKeys(config, config.keys) \o <<"}">>

(***************************************************************************)
(* 4.C Upstream connection (class UpstreamClient).                         *)
(***************************************************************************)
SrvA == <<"a">>
SrvA_ == <<"a", "_">>
SrvB == <<"b">>
SrvS == <<"s">>

FleetNames == {SrvA, SrvA_}

\* The tools of the upstream of the chat session.
CHESS_CREATE_GAME ==
    <<"c", "h", "e", "s", "s", "_", "c", "r", "e", "a", "t", "e", "_",
      "g", "a", "m", "e">>
CHESS_MAKE_MOVE ==
    <<"c", "h", "e", "s", "s", "_", "m", "a", "k", "e", "_",
      "m", "o", "v", "e">>
SET_PROJECT_ROOT ==
    <<"s", "e", "t", "_", "p", "r", "o", "j", "e", "c", "t", "_",
      "r", "o", "o", "t">>

\* The tools each upstream advertises in tools/list (its environment).
AdvertisedTools(name) ==
    CASE name = SrvA  -> << <<"_", "x">>, <<"y">> >>
      [] name = SrvA_ -> << <<"x">> >>
      [] name = SrvS  -> <<CHESS_CREATE_GAME, CHESS_MAKE_MOVE,
                           SET_PROJECT_ROOT>>
      [] OTHER        -> <<>>

\* UpstreamClient.connect: resolves or rejects.  Whether the transport comes
\* up is decided by the upstream's config, the same way at every attempt.
ConnectOk(name, config) == config.command # "bad"

\* new UpstreamClient(name, config), after a connect() that resolved.
UpstreamClient(name, config) ==
    [name |-> name, config |-> config, tools |-> AdvertisedTools(name)]

(***************************************************************************)
(* Insertion-ordered maps (the JavaScript Map): a sequence of entries      *)
(* [k, v] with distinct keys.                                              *)
(***************************************************************************)
MapKeys(m) == [i \in DOMAIN m |-> m[i].k]
MapHas(m, k) == \E i \in DOMAIN m : m[i].k = k
MapGet(m, k) == m[CHOOSE i \in DOMAIN m : m[i].k = k].v
MapSet(m, k, v) ==
    IF MapHas(m, k)
    THEN [i \in DOMAIN m |-> IF m[i].k = k THEN [k |-> k, v |-> v] ELSE m[i]]
    ELSE Append(m, [k |-> k, v |-> v])
MapDelete(m, k) == SelectSeq(m, LAMBDA e : e.k # k)


(***************************************************************************)
(* 4.D Upstream fleet manager (multiplexer/server-manager.ts), each        *)
(* operation run alone from its call to its return.  An operation maps an *)
(* effect record to an effect record:                                      *)
(*   upstreams, serverConfigs  the two Maps of the ServerManager           *)
(*   closes, connects          per name, the close() and connect() calls   *)
(*                             the operation made                          *)
(*   failed                    the names logged as failed (logError)       *)
(***************************************************************************)
NoCalls == [n \in FleetNames \cup {SrvS} |-> 0]

Effect(ups, cfgs) ==
    [upstreams |-> ups, serverConfigs |-> cfgs,
     closes |-> NoCalls, connects |-> NoCalls, failed |-> {}]

Bump(counter, name) == [counter EXCEPT ![name] = @ + 1]

\* The body of connectAll's entries.map callback, and of the "add new
\* servers" loop of applyConfigDiff: connect, then record; log on failure.
ConnectAndSet(e, name, config) ==
    IF ConnectOk(name, config)
    THEN [e EXCEPT !.connects = Bump(@, name),
                   !.upstreams = MapSet(@, name, UpstreamClient(name, config)),
                   !.serverConfigs = MapSet(@, name, config)]
    ELSE [e EXCEPT !.connects = Bump(@, name),
                   !.failed = @ \cup {name}]

RECURSIVE ConnectEach(_, _)
ConnectEach(e, entries) ==
    IF entries = <<>> THEN e
    ELSE ConnectEach(ConnectAndSet(e, Head(entries).k, Head(entries).v),
                     Tail(entries))

\* connectAll(config): every entry is connected; a rejection is logged and
\* nothing is thrown.  The connects run in parallel: `settled` lists the
\* entries of config in the order in which their connect() settles.
connectAll(e, settled) == ConnectEach(e, settled)

\* The orders in which the connects of config's entries can settle.
SettleOrders(config) ==
    {o \in [DOMAIN config -> Range(config)] : Range(o) = Range(config)}

\* reconnect that leaves the existing client open and in place.
reconnect_NoClose(e, serverName, config) ==
    LET tried == [e EXCEPT !.connects = Bump(@, serverName)] IN
    IF ConnectOk(serverName, config)
    THEN [e |-> [tried EXCEPT
                    !.upstreams = MapSet(@, serverName,
                                         UpstreamClient(serverName, config)),
                    !.serverConfigs = MapSet(@, serverName, config)],
          threw |-> FALSE]
    ELSE [e |-> tried, threw |-> TRUE]

\* reconnect(serverName, config): [e |-> the effect, threw |-> whether
\* connect() rejected, which reconnect does not catch].
reconnect(e, serverName, config) ==
    LET closed == IF MapHas(e.upstreams, serverName)
                  THEN [e EXCEPT !.closes = Bump(@, serverName),
                                 !.upstreams = MapDelete(@, serverName)]
                  ELSE e
        tried == [closed EXCEPT !.connects = Bump(@, serverName)]
    IN  IF ConnectOk(serverName, config)
        THEN [e |-> [tried EXCEPT
                        !.upstreams = MapSet(@, serverName,
                                             UpstreamClient(serverName, config)),
                        !.serverConfigs = MapSet(@, serverName, config)],
              threw |-> FALSE]
        ELSE [e |-> tried, threw |-> TRUE]

closeAll(e) ==
    [e EXCEPT !.closes = [n \in DOMAIN NoCalls |->
                             IF MapHas(e.upstreams, n) THEN @[n] + 1 ELSE @[n]],
              !.upstreams = <<>>,
              !.serverConfigs = <<>>]

disconnectServer(e, serverName) ==
    IF MapHas(e.upstreams, serverName)
    THEN [e EXCEPT !.closes = Bump(@, serverName),
                   !.upstreams = MapDelete(@, serverName),
                   !.serverConfigs = MapDelete(@, serverName)]
    ELSE e

\* applyConfigDiff, first loop: the names of oldConfig that newConfig lacks.
RECURSIVE DiffRemove(_, _, _)
DiffRemove(r, oldNames, newConfig) ==
    IF oldNames = <<>> THEN r
    ELSE LET name == Head(oldNames) IN
         DiffRemove(
            IF ~MapHas(newConfig, name)
            THEN [r EXCEPT !.e = disconnectServer(@, name),
                           !.removed = Append(@, name)]
            ELSE r,
            Tail(oldNames), newConfig)

\* Second loop: the names of newConfig that oldConfig lacks.
RECURSIVE DiffAdd(_, _, _, _)
DiffAdd(r, newNames, oldConfig, newConfig) ==
    IF newNames = <<>> THEN r
    ELSE LET name == Head(newNames)
             serverConfig == MapGet(newConfig, name)
         IN
         DiffAdd(
            IF ~MapHas(oldConfig, name)
            THEN [r EXCEPT !.e = ConnectAndSet(@, name, serverConfig),
                           !.added = IF ConnectOk(name, serverConfig)
                                     THEN Append(@, name) ELSE @]
            ELSE r,
            Tail(newNames), oldConfig, newConfig)

\* The comparison of the third loop: oldJson !== newJson.
ConfigChanged_Always(oldConfig, newConfig, name) == TRUE

ConfigChanged_Never(oldConfig, newConfig, name) == FALSE

ConfigChanged(oldConfig, newConfig, name) ==
    JSONstringify(MapGet(oldConfig, name)) # JSONstringify(MapGet(newConfig, name))

\* Third loop: the names in both whose serialized configs differ.
RECURSIVE DiffChange(_, _, _, _)
DiffChange(r, newNames, oldConfig, newConfig) ==
    IF newNames = <<>> THEN r
    ELSE LET name == Head(newNames) IN
         DiffChange(
            IF /\ MapHas(oldConfig, name)
               /\ ConfigChanged(oldConfig, newConfig, name)
            THEN LET rc == reconnect(r.e, name, MapGet(newConfig, name)) IN
                 IF rc.threw
                 THEN [r EXCEPT !.e = [rc.e EXCEPT !.failed = @ \cup {name}]]
                 ELSE [r EXCEPT !.e = rc.e, !.changed = Append(@, name)]
            ELSE r,
            Tail(newNames), oldConfig, newConfig)

\* applyConfigDiff(oldConfig, newConfig): [e, added, removed, changed].
applyConfigDiff(e, oldConfig, newConfig) ==
    LET r0 == [e |-> e, added |-> <<>>, removed |-> <<>>, changed |-> <<>>]
        r1 == DiffRemove(r0, MapKeys(oldConfig), newConfig)
        r2 == DiffAdd(r1, MapKeys(newConfig), oldConfig, newConfig)
    IN  DiffChange(r2, MapKeys(newConfig), oldConfig, newConfig)

\* The fleet: which upstreams are connected, and under which config.
FleetOf(ups) == [n \in Range(MapKeys(ups)) |-> MapGet(ups, n).config]

(***************************************************************************)
(* Resolved configs (ResolvedConfig.servers): name -> ServerConfig, the    *)
(* keys in the order the config files list them.                           *)
(***************************************************************************)
\* The configs each upstream is given in the model.
ConfigsFor(name) ==
    IF name = SrvA THEN {CfgV1, CfgV1r, CfgV2, CfgBad} ELSE {CfgV1, CfgBad}

ResolvedConfigs ==
    {<<>>}
    \cup {<<[k |-> SrvA, v |-> c]>> : c \in ConfigsFor(SrvA)}
    \cup {<<[k |-> SrvA_, v |-> c]>> : c \in ConfigsFor(SrvA_)}
    \cup {<<[k |-> SrvA, v |-> c1], [k |-> SrvA_, v |-> c2]>> :
             c1 \in ConfigsFor(SrvA), c2 \in ConfigsFor(SrvA_)}

(***************************************************************************)
(* The fleet as a state machine, one operation at a time: each action is   *)
(* one call of a ServerManager method, from the call to its return.        *)
(* currentConfig is the caller's: the ResolvedConfig it handed over last   *)
(* (to connectAll, or as newConfig), which it passes as oldConfig next.    *)
(***************************************************************************)
NamesOf(config) == Range(MapKeys(config))

\* The names both configs hold with a different value.
DifferByValue(oldConfig, newConfig) ==
    {n \in NamesOf(oldConfig) \cap NamesOf(newConfig) :
        ConfigValue(MapGet(oldConfig, n)) # ConfigValue(MapGet(newConfig, n))}

NoOp == [op |-> "none", name |-> <<>>, oldNames |-> {}, configured |-> {},
         differ |-> {},
         same |-> FALSE, wasIn |-> {}, kept |-> TRUE,
         closes |-> NoCalls, connects |-> NoCalls,
         failed |-> {}, threw |-> FALSE,
         added |-> <<>>, removed |-> <<>>, changed |-> <<>>]

\* What lastOp keeps of an operation that ran on effect e: the names in the
\* fleet when it was called, whether it left both Maps as they were, and the
\* calls and reports it made.
Returned(op, e, threw) ==
    [NoOp EXCEPT !.op = op,
                 !.wasIn = NamesOf(upstreams),
                 !.kept = (e.upstreams = upstreams
                           /\ e.serverConfigs = serverConfigs),
                 !.closes = e.closes, !.connects = e.connects,
                 !.failed = e.failed, !.threw = threw]

FleetInit ==
    /\ upstreams = <<>>
    /\ serverConfigs = <<>>
    /\ currentConfig = <<>>
    /\ lastOp = NoOp

\* A call of connectAll(config) on the manager, from call to return.
RunConnectAll(config) ==
    \E settled \in SettleOrders(config) :
    LET e == connectAll(Effect(upstreams, serverConfigs), settled) IN
    /\ upstreams' = e.upstreams
    /\ serverConfigs' = e.serverConfigs
    /\ currentConfig' = config
    /\ lastOp' = [Returned("connectAll", e, FALSE) EXCEPT
                     !.configured = NamesOf(config)]

ConnectAll(config) ==
    /\ RunConnectAll(config)
    /\ UNCHANGED outsideFleet

Reconnect(serverName, config) ==
    LET r == reconnect(Effect(upstreams, serverConfigs), serverName, config) IN
    /\ upstreams' = r.e.upstreams
    /\ serverConfigs' = r.e.serverConfigs
    /\ lastOp' = [Returned("reconnect", r.e, r.threw) EXCEPT
                     !.name = serverName]
    /\ UNCHANGED <<currentConfig, outsideFleet>>

CloseAll ==
    LET e == closeAll(Effect(upstreams, serverConfigs)) IN
    /\ upstreams' = e.upstreams
    /\ serverConfigs' = e.serverConfigs
    /\ lastOp' = Returned("closeAll", e, FALSE)
    /\ UNCHANGED <<currentConfig, outsideFleet>>

DisconnectServer(serverName) ==
    LET e == disconnectServer(Effect(upstreams, serverConfigs), serverName) IN
    /\ upstreams' = e.upstreams
    /\ serverConfigs' = e.serverConfigs
    /\ lastOp' = [Returned("disconnectServer", e, FALSE) EXCEPT
                     !.name = serverName]
    /\ UNCHANGED <<currentConfig, outsideFleet>>

\* A call of applyConfigDiff(oldConfig, newConfig), from call to return.
RunApplyConfigDiff(oldConfig, newConfig) ==
    LET r == applyConfigDiff(Effect(upstreams, serverConfigs),
                             oldConfig, newConfig) IN
    /\ upstreams' = r.e.upstreams
    /\ serverConfigs' = r.e.serverConfigs
    /\ currentConfig' = newConfig
    /\ lastOp' = [Returned("applyConfigDiff", r.e, FALSE) EXCEPT
                     !.oldNames = NamesOf(oldConfig),
                     !.configured = NamesOf(newConfig),
                     !.differ = DifferByValue(oldConfig, newConfig),
                     !.same = (oldConfig = newConfig),
                     !.added = r.added, !.removed = r.removed,
                     !.changed = r.changed]

ApplyConfigDiff(oldConfig, newConfig) ==
    /\ RunApplyConfigDiff(oldConfig, newConfig)
    /\ UNCHANGED outsideFleet

Next ==
    \/ \E config \in ResolvedConfigs : ConnectAll(config)
    \/ \E n \in FleetNames : \E c \in ConfigsFor(n) : Reconnect(n, c)
    \/ CloseAll
    \/ \E n \in FleetNames : DisconnectServer(n)
    \/ \E new \in ResolvedConfigs : ApplyConfigDiff(currentConfig, new)


(***************************************************************************)
(* 4.F Toolset controller (multiplexer/toolset-manager.ts).  toolsets is   *)
(* the Record name -> ToolsetConfig as an ordered map; loaded is the Set   *)
(* loadedToolsets.                                                         *)
(***************************************************************************)
Spike == <<"s", "p", "i", "k", "e">>

LIST_TOOLSETS == 
    <<"s", "p", "i", "k", "e", "_", "_", "l", "i", "s", "t", "_", "t", "o", "o", "l", "s", "e", "t", "s">>
LOAD_TOOLSET == 
    <<"s", "p", "i", "k", "e", "_", "_", "l", "o", "a", "d", "_", "t", "o", "o", "l", "s", "e", "t">>
UNLOAD_TOOLSET == 
    <<"s", "p", "i", "k", "e", "_", "_", "u", "n", "l", "o", "a", "d", "_", "t", "o", "o", "l", "s", "e", "t">>

ServersOf(toolset) == Range(toolset.servers)

\* isServerVisible that wants every toolset of the server loaded.
isServerVisible_All(toolsets, loaded, serverName) ==
    \A i \in DOMAIN toolsets :
        serverName \in ServersOf(toolsets[i].v) => toolsets[i].k \in loaded

isServerVisible(toolsets, loaded, serverName) ==
    LET belongsToToolset ==
            \E i \in DOMAIN toolsets : serverName \in ServersOf(toolsets[i].v)
    IN  IF ~belongsToToolset THEN TRUE
        ELSE \E i \in DOMAIN toolsets :
                 /\ serverName \in ServersOf(toolsets[i].v)
                 /\ toolsets[i].k \in loaded

\* loadToolset(name): throws on an unknown name, else adds it.
loadToolset(toolsets, loaded, name) ==
    IF ~MapHas(toolsets, name)
    THEN [threw |-> TRUE, loaded |-> loaded]
    ELSE [threw |-> FALSE, loaded |-> loaded \cup {name}]

\* unloadToolset(name): throws on an unknown name, else deletes it.
unloadToolset(toolsets, loaded, name) ==
    IF ~MapHas(toolsets, name)
    THEN [threw |-> TRUE, loaded |-> loaded]
    ELSE [threw |-> FALSE, loaded |-> loaded \ {name}]

getMetaTools == <<LIST_TOOLSETS, LOAD_TOOLSET, UNLOAD_TOOLSET>>

isMetaTool(toolName) ==
    \/ toolName = LIST_TOOLSETS
    \/ toolName = LOAD_TOOLSET
    \/ toolName = UNLOAD_TOOLSET

\* handleMetaTool(toolName, args): [isError, loaded |-> the loaded set after].
\* args.name is "" when the argument is missing or not a string.
handleMetaTool(toolsets, loaded, toolName, args) ==
    CASE toolName = LIST_TOOLSETS -> [isError |-> FALSE, loaded |-> loaded]
      [] toolName = LOAD_TOOLSET ->
            IF args.name = "" THEN [isError |-> TRUE, loaded |-> loaded]
            ELSE LET result == loadToolset(toolsets, loaded, args.name) IN
                 [isError |-> result.threw, loaded |-> result.loaded]
      [] toolName = UNLOAD_TOOLSET ->
            IF args.name = "" THEN [isError |-> TRUE, loaded |-> loaded]
            ELSE IF ~MapHas(toolsets, args.name)
                 THEN [isError |-> TRUE, loaded |-> loaded]
            ELSE IF args.name \notin loaded
                 THEN [isError |-> TRUE, loaded |-> loaded]
            ELSE [isError |-> FALSE,
                  loaded |-> unloadToolset(toolsets, loaded, args.name).loaded]
      [] OTHER -> [isError |-> TRUE, loaded |-> loaded]

(***************************************************************************)
(* 4.D The catalog and the dispatch of the fleet manager.  m is the        *)
(* ServerManager: its two Maps, its options, its toolset manager.          *)
(***************************************************************************)
Manager(ups, cfgs, opts, tsm, loaded) ==
    [upstreams |-> ups, serverConfigs |-> cfgs,
     separator |-> opts.separator, noPrefix |-> opts.noPrefix,
     attached |-> tsm.attached, toolsets |-> tsm.toolsets, loaded |-> loaded]

\* this._toolsetManager && !this._toolsetManager.isServerVisible(serverName)
HiddenByToolsets(m, serverName) ==
    m.attached /\ ~isServerVisible(m.toolsets, m.loaded, serverName)

getFilteredTools(m, serverName, client) ==
    filterTools(client.tools,
                IF MapHas(m.serverConfigs, serverName)
                THEN MapGet(m.serverConfigs, serverName).tools
                ELSE NoFilter)

\* The catalog entries of one upstream.
ServerEntries(m, serverName, client) ==
    IF HiddenByToolsets(m, serverName) THEN <<>>
    ELSE LET filteredTools == getFilteredTools(m, serverName, client) IN
         [i \in DOMAIN filteredTools |->
            [namespacedName |->
                IF m.noPrefix THEN filteredTools[i]
                ELSE namespaceTool(serverName, filteredTools[i], m.separator),
             originalName |-> filteredTools[i],
             serverName |-> serverName]]

RECURSIVE UpstreamEntries(_, _)
UpstreamEntries(m, ups) ==
    IF ups = <<>> THEN <<>>
    ELSE ServerEntries(m, Head(ups).k, Head(ups).v)
         \o UpstreamEntries(m, Tail(ups))

MetaEntries(m) ==
    IF ~m.attached THEN <<>>
    ELSE [i \in DOMAIN getMetaTools |->
            [namespacedName |-> getMetaTools[i],
             originalName |-> getMetaTools[i],
             serverName |-> Spike]]

getAllTools(m) == UpstreamEntries(m, m.upstreams) \o MetaEntries(m)

\* What callTool does: forwards to one upstream's callTool, answers a
\* meta-tool itself, or throws.
Forwarded(m, serverName, toolName) ==
    [outcome |-> "forwarded", serverName |-> serverName, toolName |-> toolName,
     error |-> "", isError |-> FALSE, loaded |-> m.loaded]

Thrown(m, error) ==
    [outcome |-> "thrown", serverName |-> <<>>, toolName |-> <<>>,
     error |-> error, isError |-> TRUE, loaded |-> m.loaded]

MetaResult(r) ==
    [outcome |-> "meta", serverName |-> <<>>, toolName |-> <<>>,
     error |-> "", isError |-> r.isError, loaded |-> r.loaded]

\* The noPrefix branch: the first visible upstream that has the tool.
RECURSIVE FindUnprefixed(_, _, _)
FindUnprefixed(m, ups, namespacedName) ==
    IF ups = <<>> THEN Thrown(m, "Tool not found")
    ELSE LET serverName == Head(ups).k
             client == Head(ups).v
         IN  IF HiddenByToolsets(m, serverName)
             THEN FindUnprefixed(m, Tail(ups), namespacedName)
             ELSE IF namespacedName
                        \in Range(getFilteredTools(m, serverName, client))
             THEN Forwarded(m, serverName, namespacedName)
             ELSE FindUnprefixed(m, Tail(ups), namespacedName)

\* The prefixed branch: parse, look the client up, check, forward.
CallPrefixed_FilterFirst(m, namespacedName) ==
    LET parsed == parseNamespacedTool(namespacedName, MapKeys(m.upstreams),
                                      m.separator)
    IN  IF ~parsed.ok THEN Thrown(m, "Cannot resolve tool")
        ELSE IF ~MapHas(m.upstreams, parsed.serverName)
             THEN Thrown(m, "Server not connected")
        ELSE IF parsed.toolName \notin
                    Range(getFilteredTools(m, parsed.serverName,
                                           MapGet(m.upstreams, parsed.serverName)))
             THEN Thrown(m, "Tool not found")
        ELSE IF HiddenByToolsets(m, parsed.serverName)
             THEN Thrown(m, "Tool not found (toolset not loaded)")
        ELSE Forwarded(m, parsed.serverName, parsed.toolName)

CallPrefixed(m, namespacedName) ==
    LET parsed == parseNamespacedTool(namespacedName, MapKeys(m.upstreams),
                                      m.separator)
    IN  IF ~parsed.ok THEN Thrown(m, "Cannot resolve tool")
        ELSE IF ~MapHas(m.upstreams, parsed.serverName)
             THEN Thrown(m, "Server not connected")
        ELSE IF HiddenByToolsets(m, parsed.serverName)
             THEN Thrown(m, "Tool not found (toolset not loaded)")
        ELSE IF parsed.toolName \notin
                    Range(getFilteredTools(m, parsed.serverName,
                                           MapGet(m.upstreams, parsed.serverName)))
             THEN Thrown(m, "Tool not found")
        ELSE Forwarded(m, parsed.serverName, parsed.toolName)

callTool(m, namespacedName, args) ==
    IF m.attached /\ isMetaTool(namespacedName)
    THEN MetaResult(handleMetaTool(m.toolsets, m.loaded, namespacedName, args))
    ELSE IF m.noPrefix
         THEN FindUnprefixed(m, m.upstreams, namespacedName)
         ELSE CallPrefixed(m, namespacedName)

(***************************************************************************)
(* The catalog as a state machine: a ServerManager built with its options, *)
(* with or without a ToolsetManager (commands/serve.ts), connected once    *)
(* with connectAll, then serving tools/list and tools/call.                *)
(***************************************************************************)
\* The toolsets of the model: SrvA is in both, SrvA_ in none.
Toolsets ==
    << [k |-> "T1", v |-> [servers |-> <<SrvA>>]],
       [k |-> "T2", v |-> [servers |-> <<SrvA, SrvB>>]] >>

ToolsetNames == {"T1", "T2", "nope"}

\* The arguments of a call, as far as a meta-tool reads them.
CallArgs == {[name |-> n] : n \in ToolsetNames \cup {""}}
NoArgs == [name |-> ""]

TheManager ==
    Manager(upstreams, serverConfigs, options, toolsetManager, loadedToolsets)

\* The wire names a client may send: the names of the catalog, and others.
OtherWires ==
    {<<"a">>, <<"b", "_", "_", "x">>, <<"a", "_", "_", "z">>, <<"x">>}

WireNames == {e.namespacedName : e \in Range(getAllTools(TheManager))}
                 \cup OtherWires

NoCall == [op |-> "none", wire |-> <<>>, entries |-> {}, name |-> "",
           loadedBefore |-> {}, threw |-> FALSE,
           result |-> [outcome |-> "none"]]

CatalogInit ==
    /\ options \in [separator : {DEFAULT_SEPARATOR, <<":">>},
                    noPrefix : BOOLEAN]
    /\ toolsetManager \in {[attached |-> FALSE, toolsets |-> <<>>],
                           [attached |-> TRUE, toolsets |-> Toolsets]}
    /\ loadedToolsets = {}
    /\ lastCall = NoCall

CatalogIdleInit ==
    /\ options = [separator |-> DEFAULT_SEPARATOR, noPrefix |-> FALSE]
    /\ toolsetManager = [attached |-> FALSE, toolsets |-> <<>>]
    /\ loadedToolsets = {}
    /\ lastCall = NoCall

\* serve: await manager.connectAll(config), once, on the new manager.
Serve(config) ==
    /\ lastOp.op = "none"
    /\ ConnectAll(config)

\* tools/call: manager.callTool(name, args).
CallTool(namespacedName, args) ==
    LET result == callTool(TheManager, namespacedName, args) IN
    /\ lastCall' = [NoCall EXCEPT
            !.op = "callTool",
            !.wire = namespacedName,
            !.entries = {e \in Range(getAllTools(TheManager)) :
                            e.namespacedName = namespacedName},
            !.name = args.name,
            !.loadedBefore = loadedToolsets,
            !.result = [outcome |-> result.outcome,
                        serverName |-> result.serverName,
                        toolName |-> result.toolName,
                        error |-> result.error,
                        isError |-> result.isError]]
    /\ loadedToolsets' = result.loaded
    /\ UNCHANGED <<options, toolsetManager, fleetVars, outsideCatalog>>

\* toolsetManager.loadToolset(name), called directly.
LoadToolset(name) ==
    LET r == loadToolset(toolsetManager.toolsets, loadedToolsets, name) IN
    /\ toolsetManager.attached
    /\ loadedToolsets' = r.loaded
    /\ lastCall' = [NoCall EXCEPT !.op = "loadToolset", !.name = name,
                                  !.loadedBefore = loadedToolsets,
                                  !.threw = r.threw]
    /\ UNCHANGED <<options, toolsetManager, fleetVars, outsideCatalog>>

\* toolsetManager.unloadToolset(name), called directly.
UnloadToolset(name) ==
    LET r == unloadToolset(toolsetManager.toolsets, loadedToolsets, name) IN
    /\ toolsetManager.attached
    /\ loadedToolsets' = r.loaded
    /\ lastCall' = [NoCall EXCEPT !.op = "unloadToolset", !.name = name,
                                  !.loadedBefore = loadedToolsets,
                                  !.threw = r.threw]
    /\ UNCHANGED <<options, toolsetManager, fleetVars, outsideCatalog>>

NextCatalog ==
    \/ \E config \in ResolvedConfigs : Serve(config)
    \/ \E w \in WireNames :
          \E args \in (IF isMetaTool(w) THEN CallArgs ELSE {NoArgs}) :
             CallTool(w, args)
    \/ \E name \in ToolsetNames : LoadToolset(name)
    \/ \E name \in ToolsetNames : UnloadToolset(name)

(***************************************************************************)
(* A caller that reloads its config: connectAll(C1), any number of         *)
(* applyConfigDiff(C1, C1') that move C1 on, then applyConfigDiff(C1, C2)  *)
(* and applyConfigDiff(C2, C3).  chain.base is the fleet (both Maps) that  *)
(* held when C1 was the config in force.                                   *)
(***************************************************************************)
NoChain == [phase |-> "start", base |-> Effect(<<>>, <<>>),
            c1 |-> <<>>, c2 |-> <<>>]

ChainInit == chain = NoChain

ChainConnect(C1) ==
    /\ chain.phase = "start"
    /\ RunConnectAll(C1)
    /\ chain' = [NoChain EXCEPT !.phase = "base",
                                !.base = Effect(upstreams', serverConfigs'),
                                !.c1 = C1]
    /\ UNCHANGED outsideCompose

ChainMoveBase(C1) ==
    /\ chain.phase = "base"
    /\ RunApplyConfigDiff(chain.c1, C1)
    /\ chain' = [chain EXCEPT !.base = Effect(upstreams', serverConfigs'),
                              !.c1 = C1]
    /\ UNCHANGED outsideCompose

ChainFirst(C2) ==
    /\ chain.phase = "base"
    /\ RunApplyConfigDiff(chain.c1, C2)
    /\ chain' = [chain EXCEPT !.phase = "mid", !.c2 = C2]
    /\ UNCHANGED outsideCompose

ChainSecond(C3) ==
    /\ chain.phase = "mid"
    /\ RunApplyConfigDiff(chain.c2, C3)
    /\ chain' = [chain EXCEPT !.phase = "done"]
    /\ UNCHANGED outsideCompose

NextCompose ==
    \/ \E C1 \in ResolvedConfigs : ChainConnect(C1)
    \/ \E C1 \in ResolvedConfigs : ChainMoveBase(C1)
    \/ \E C2 \in ResolvedConfigs : ChainFirst(C2)
    \/ \E C3 \in ResolvedConfigs : ChainSecond(C3)

(***************************************************************************)
(* 5. The fleet operations step by step.  An async method runs without     *)
(* interruption from one await to the next; between two awaits of one      *)
(* caller's operation, the continuations of another caller's may run.      *)
(* A task is one caller's operation:                                       *)
(*   todo  the calls it has not begun (applyConfigDiff makes several)      *)
(*   cur   the await it is suspended at, and what it does on resuming      *)
(*   par   connectAll: the entries whose connect() has not settled         *)
(***************************************************************************)
TaskIds == {1, 2}

NoInstr == [kind |-> "none", name |-> <<>>, config |-> CfgBad]

FleetCall(kind, name, config, servers) ==
    [kind |-> kind, name |-> name, config |-> config, servers |-> servers]

IdleTask == [status |-> "idle", op |-> FleetCall("none", <<>>, CfgBad, <<>>),
             old |-> <<>>, cur |-> NoInstr, par |-> {}, todo |-> <<>>]

\* applyConfigDiff: the calls of its three loops, in order.
DiffCalls(oldConfig, newConfig) ==
    LET oldNames == MapKeys(oldConfig)
        newNames == MapKeys(newConfig)
        call(kind, name) ==
            FleetCall(kind, name,
                      IF MapHas(newConfig, name) THEN MapGet(newConfig, name)
                      ELSE CfgBad, <<>>)
        removed == SelectSeq(oldNames, LAMBDA n : ~MapHas(newConfig, n))
        added == SelectSeq(newNames, LAMBDA n : ~MapHas(oldConfig, n))
        changed == SelectSeq(newNames, LAMBDA n :
                       MapHas(oldConfig, n)
                       /\ ConfigChanged(oldConfig, newConfig, n))
    IN  [i \in DOMAIN removed |-> call("disconnectServer", removed[i])]
        \o [i \in DOMAIN added |-> call("add", added[i])]
        \o [i \in DOMAIN changed |-> call("reconnect", changed[i])]

\* The calls a fleet operation makes.
CallsOf(op, oldConfig) ==
    IF op.kind = "applyConfigDiff" THEN DiffCalls(oldConfig, op.servers)
    ELSE <<op>>

\* The part of a call that runs at once, up to its first await: what the
\* call is suspended at.  It reads the upstream map and writes nothing.
Begin(call, ups) ==
    CASE call.kind = "disconnectServer" ->
            IF MapHas(ups, call.name)
            THEN [kind |-> "closed", name |-> call.name, config |-> CfgBad]
            ELSE [NoInstr EXCEPT !.kind = "returned"]
      [] call.kind = "reconnect" ->
            IF MapHas(ups, call.name)
            THEN [kind |-> "existingClosed", name |-> call.name,
                  config |-> call.config]
            ELSE [kind |-> "connectSettled", name |-> call.name,
                  config |-> call.config]
      [] call.kind = "add" ->
            [kind |-> "connectSettled", name |-> call.name,
             config |-> call.config]
      [] call.kind = "closeAll" -> [NoInstr EXCEPT !.kind = "allClosed"]
      [] call.kind = "connectAll" ->
            IF call.servers = <<>>
            THEN [NoInstr EXCEPT !.kind = "returned"]
            ELSE [NoInstr EXCEPT !.kind = "allSettled"]

\* The task begins its next call, or is done.
BeginNext(task, ups) ==
    IF task.todo = <<>>
    THEN [task EXCEPT !.status = "done", !.cur = NoInstr, !.par = {}]
    ELSE LET call == Head(task.todo) IN
         [task EXCEPT !.cur = Begin(call, ups),
                      !.par = IF call.kind = "connectAll"
                              THEN Range(call.servers) ELSE {},
                      !.todo = Tail(task.todo)]

\* What a task does to the two Maps when it resumes from cur.
ResumeMaps(cur, maps) ==
    CASE cur.kind = "closed" ->
            [upstreams |-> MapDelete(maps.upstreams, cur.name),
             serverConfigs |-> MapDelete(maps.serverConfigs, cur.name)]
      [] cur.kind = "existingClosed" ->
            [maps EXCEPT !.upstreams = MapDelete(@, cur.name)]
      [] cur.kind = "connectSettled" ->
            IF ConnectOk(cur.name, cur.config)
            THEN [upstreams |-> MapSet(maps.upstreams, cur.name,
                                       UpstreamClient(cur.name, cur.config)),
                  serverConfigs |-> MapSet(maps.serverConfigs, cur.name,
                                           cur.config)]
            ELSE maps
      [] cur.kind = "allClosed" ->
            [upstreams |-> <<>>, serverConfigs |-> <<>>]
      [] OTHER -> maps

TheMaps == [upstreams |-> upstreams, serverConfigs |-> serverConfigs]

\* The operations the callers of the model invoke.
ConcConfigs ==
    { <<>>,
      <<[k |-> SrvA, v |-> CfgV1]>>,
      <<[k |-> SrvA, v |-> CfgV2]>>,
      <<[k |-> SrvA, v |-> CfgBad]>>,
      <<[k |-> SrvA, v |-> CfgV1], [k |-> SrvA_, v |-> CfgV1]>> }

FleetOps ==
    {FleetCall("connectAll", <<>>, CfgBad, C) : C \in ConcConfigs}
    \cup {FleetCall("applyConfigDiff", <<>>, CfgBad, C) : C \in ConcConfigs}
    \cup {FleetCall("reconnect", SrvA, c, <<>>) : c \in {CfgV1, CfgV2, CfgBad}}
    \cup {FleetCall("reconnect", SrvA_, CfgV1, <<>>)}
    \cup {FleetCall("disconnectServer", n, CfgBad, <<>>) : n \in FleetNames}
    \cup {FleetCall("closeAll", <<>>, CfgBad, <<>>)}

ConcInit ==
    /\ tasks = [i \in TaskIds |-> IdleTask]
    /\ concStart = [phase |-> "start", maps |-> Effect(<<>>, <<>>)]

\* Startup, with no other caller yet: await manager.connectAll(config).
ConcStartup(config) ==
    /\ concStart.phase = "start"
    /\ RunConnectAll(config)
    /\ concStart' = [phase |-> "ready",
                     maps |-> Effect(upstreams', serverConfigs')]
    /\ UNCHANGED <<tasks, outsideConc>>

\* Caller i invokes op: it runs to its first await.
Invoke(i, op) ==
    /\ concStart.phase = "ready"
    /\ tasks[i].status = "idle"
    /\ tasks' = [tasks EXCEPT ![i] =
            BeginNext([IdleTask EXCEPT !.status = "running", !.op = op,
                                       !.old = currentConfig,
                                       !.todo = CallsOf(op, currentConfig)],
                      upstreams)]
    /\ UNCHANGED <<concStart, fleetVars, outsideConc>>

\* Caller i's operation resumes from its await and runs to the next one.
Resume(i) ==
    LET task == tasks[i]
        maps == ResumeMaps(task.cur, TheMaps)
    IN  /\ task.status = "running"
        /\ task.cur.kind # "allSettled"
        /\ upstreams' = maps.upstreams
        /\ serverConfigs' = maps.serverConfigs
        /\ tasks' = [tasks EXCEPT ![i] =
                IF task.cur.kind = "existingClosed"
                THEN [task EXCEPT !.cur.kind = "connectSettled"]
                ELSE BeginNext(task, maps.upstreams)]
        /\ UNCHANGED <<concStart, currentConfig, lastOp, outsideConc>>

\* connectAll of caller i: the connect() of one entry settles.
ConnectSettles(i, entry) ==
    LET task == tasks[i]
        maps == ResumeMaps([kind |-> "connectSettled", name |-> entry.k,
                            config |-> entry.v], TheMaps)
    IN  /\ task.status = "running"
        /\ task.cur.kind = "allSettled"
        /\ entry \in task.par
        /\ upstreams' = maps.upstreams
        /\ serverConfigs' = maps.serverConfigs
        /\ tasks' = [tasks EXCEPT ![i] =
                IF task.par = {entry}
                THEN BeginNext(task, maps.upstreams)
                ELSE [task EXCEPT !.par = @ \ {entry}]]
        /\ UNCHANGED <<concStart, currentConfig, lastOp, outsideConc>>

NextConc ==
    \/ \E config \in ConcConfigs : ConcStartup(config)
    \/ \E i \in TaskIds, op \in FleetOps : Invoke(i, op)
    \/ \E i \in TaskIds : Resume(i)
    \/ \E i \in TaskIds : \E entry \in tasks[i].par : ConnectSettles(i, entry)

\* The operation run alone, from its call to its return.
RunAlone(op, oldConfig, e) ==
    CASE op.kind = "connectAll" -> connectAll(e, op.servers)
      [] op.kind = "applyConfigDiff" ->
            applyConfigDiff(e, oldConfig, op.servers).e
      [] op.kind = "reconnect" -> reconnect(e, op.name, op.config).e
      [] op.kind = "disconnectServer" -> disconnectServer(e, op.name)
      [] op.kind = "closeAll" -> closeAll(e)
      [] OTHER -> e

\* The fleets that running the invoked operations one at a time yields.
SerialFleets ==
    LET run(i, e) == RunAlone(tasks[i].op, tasks[i].old, e) IN
    {FleetOf(run(2, run(1, concStart.maps)).upstreams),
     FleetOf(run(1, run(2, concStart.maps)).upstreams)}

(***************************************************************************)
(* 4.J Session engine (chat/slash-commands.ts): the SessionState and the   *)
(* bookkeeping after a tool call.                                          *)
(*                                                                         *)
(* The text of a tool result is kept as what JSON.parse makes of it:       *)
(*   kind "text"    not JSON: JSON.parse throws                            *)
(*   kind "null"    the JSON null                                          *)
(*   kind "array"   a JSON array                                           *)
(*   kind "object"  a JSON object, its fields [k, v, str] in order; str    *)
(*                  tells whether the value is a string                    *)
(***************************************************************************)
\* String.prototype.endsWith
EndsWith(str, suffix) ==
    /\ Len(suffix) <= Len(str)
    /\ SubSeq(str, Len(str) - Len(suffix) + 1, Len(str)) = suffix

\* String.prototype.includes
Includes(str, sub) ==
    \E i \in 1..(Len(str) - Len(sub) + 1) :
        SubSeq(str, i, i + Len(sub) - 1) = sub

Text(kind, fields) == [kind |-> kind, fields |-> fields]
PlainText == Text("text", <<>>)
Field(k, v) == [k |-> k, v |-> v, str |-> TRUE]

ID == <<"i", "d">>
UNDERSCORE_ID == <<"_", "i", "d">>
GAME_ID == <<"g", "a", "m", "e", "_", "i", "d">>
PLAYER_ID == <<"p", "l", "a", "y", "e", "r", "_", "i", "d">>
APP_ID == <<"a", "p", "p", "_", "i", "d">>
SESSION_ID == <<"s", "e", "s", "s", "i", "o", "n", "_", "i", "d">>
CREATE == <<"c", "r", "e", "a", "t", "e">>
BOOTSTRAP == <<"b", "o", "o", "t", "s", "t", "r", "a", "p">>

\* The keys of CONFIG_PREREQUISITES.
CONFIG_PREREQUISITES == {SET_PROJECT_ROOT}

\* new SessionState()
NewSession == [created |-> <<>>, idsByKey |-> <<>>, configToolsCalled |-> {}]

\* this.created.get(prefix) ?? [] and this.idsByKey.get(key) ?? []
GetOrEmpty(m, k) == IF MapHas(m, k) THEN MapGet(m, k) ELSE <<>>

recordCreate_Replace(s, prefix, ids) ==
    [s EXCEPT !.created = MapSet(@, prefix, ids)]

recordCreate(s, prefix, ids) ==
    [s EXCEPT !.created = MapSet(@, prefix, GetOrEmpty(@, prefix) \o ids)]

\* The body of recordIds' loop for one entry of the parsed object.
RecordEntry_ForgetOthers(s, f) ==
    IF f.str /\ (EndsWith(f.k, UNDERSCORE_ID) \/ f.k = ID)
    THEN [s EXCEPT !.idsByKey = <<[k |-> f.k, v |-> <<f.v>>]>>]
    ELSE s

RecordEntry(s, f) ==
    IF f.str /\ (EndsWith(f.k, UNDERSCORE_ID) \/ f.k = ID)
    THEN [s EXCEPT !.idsByKey =
              MapSet(@, f.k, Append(GetOrEmpty(@, f.k), f.v))]
    ELSE s

RECURSIVE RecordEntries(_, _)
RecordEntries(s, fields) ==
    IF fields = <<>> THEN s
    ELSE RecordEntries(RecordEntry(s, Head(fields)), Tail(fields))

\* recordIds(result): nothing for a text that is not a JSON object; an
\* array's entries have the keys "0", "1", ...
recordIds(s, result) ==
    IF result.kind = "object" THEN RecordEntries(s, result.fields) ELSE s

getLatestId(s, paramName) ==
    LET ids == GetOrEmpty(s.idsByKey, paramName) IN
    IF ids # <<>> THEN [found |-> TRUE, id |-> ids[Len(ids)]]
    ELSE [found |-> FALSE, id |-> ""]

recordConfigCall(s, toolName) ==
    [s EXCEPT !.configToolsCalled = @ \cup {toolName}]

\* extractPrefix(namespacedName, serverName): the text before the first
\* underscore of the name without its namespace.
extractPrefix(namespacedName, serverName) ==
    LET toolName == stripNamespace(namespacedName, serverName,
                                   DEFAULT_SEPARATOR)
        under == {i \in DOMAIN toolName : toolName[i] = "_"}
    IN  IF under = {} THEN toolName
        ELSE SubSeq(toolName, 1,
                    (CHOOSE i \in under : \A j \in under : i <= j) - 1)

\* extractIdsFromResult(result): the string values under idKeys, in the
\* order of idKeys; [] when JSON.parse or the property read throws.
extractIdsFromResult(result) ==
    LET idKeys == <<ID, GAME_ID, PLAYER_ID, APP_ID, SESSION_ID>>
        valueOf(key) ==
            LET at == {i \in DOMAIN result.fields :
                          result.fields[i].k = key /\ result.fields[i].str}
            IN  IF at = {} THEN <<>>
                ELSE <<result.fields[CHOOSE i \in at : TRUE].v>>
    IN  IF result.kind # "object" THEN <<>>
        ELSE valueOf(idKeys[1]) \o valueOf(idKeys[2]) \o valueOf(idKeys[3])
             \o valueOf(idKeys[4]) \o valueOf(idKeys[5])

\* The "track config tools" and "track create tools" statements that
\* handleDirectToolCall and trackToolCallForSession share.
TrackConfigAndCreate(s, namespacedName, serverName, result) ==
    LET stripped == stripNamespace(namespacedName, serverName,
                                   DEFAULT_SEPARATOR)
        s1 == IF stripped \in CONFIG_PREREQUISITES
              THEN recordConfigCall(s, stripped) ELSE s
        ids == extractIdsFromResult(result)
    IN  IF Includes(namespacedName, CREATE)
           \/ Includes(namespacedName, BOOTSTRAP)
        THEN recordCreate(s1, extractPrefix(namespacedName, serverName),
                          IF ids # <<>> THEN ids ELSE <<"_created">>)
        ELSE s1

\* Array.prototype.find over the catalog: the first entry with the name.
FindTool(allTools, name) ==
    LET at == {i \in DOMAIN allTools : allTools[i].namespacedName = name} IN
    IF at = {} THEN [found |-> FALSE]
    ELSE [found |-> TRUE,
          tool |-> allTools[CHOOSE i \in at : \A j \in at : i <= j]]

\* trackToolCallForSession(toolName, result, isError, allTools, s): the
\* onToolCallEnd hook of the chat REPL.
trackToolCallForSession(toolName, result, isError, allTools, s) ==
    LET found == FindTool(allTools, toolName) IN
    IF isError \/ ~found.found THEN s
    ELSE TrackConfigAndCreate(recordIds(s, result), toolName,
                              found.tool.serverName, result)

\* The statements of handleDirectToolCall after executeToolCall returned.
TrackDirectToolCall(s, tool, result, isError) ==
    TrackConfigAndCreate(IF ~isError THEN recordIds(s, result) ELSE s,
                         tool.namespacedName, tool.serverName, result)

(***************************************************************************)
(* 4.H Agent loop (chat/loop.ts).  A message is kept as its role and the   *)
(* kind of its blocks: the user's prompt, an assistant's text-only         *)
(* response, an assistant's response with tool_use blocks, or the user     *)
(* message that carries the tool_results.                                  *)
(***************************************************************************)
\* const maxTurns = ctx.maxTurns ?? 20
DEFAULT_MAX_TURNS == 20

\* The largest ctx.maxTurns a caller of the model passes.
MaxTurns == 2

CtxMaxTurns ==
    {[given |-> FALSE, value |-> 0]}
    \cup {[given |-> TRUE, value |-> n] : n \in 0..MaxTurns}

Message(role, kind) == [role |-> role, kind |-> kind]

\* The history of an earlier line of the chat.
EarlierHistory == <<Message("user", "prompt"), Message("assistant", "text")>>

\* A tool_use block of a response: the tool's wire name and its input.
ToolUse(name, input) == [name |-> name, input |-> input]

\* The tool_use blocks the LLM asks for, and the responses it gives: the
\* tool_use blocks of one response, in order.
ChatToolUses ==
    {ToolUse(<<"a", "_", "_", "y">>, NoArgs), ToolUse(<<"z">>, NoArgs)}
Responses == SeqsUpTo(ChatToolUses, 2)

ChatConfigs == {<<>>, <<[k |-> SrvA, v |-> CfgV1]>>}

\* What an upstream answers to a forwarded call: a text and isError.
UpstreamResult(text, isError) == [text |-> text, isError |-> isError]

\* for (let turn = 0; turn < maxTurns; turn++): the step that is never made.
NextTurn_Stuck(turn) == turn

NextTurn(turn) == turn + 1

\* mcpToolsToClaude(manager.getAllTools()): the tools by their names.
mcpToolsToClaude(tools) == [i \in DOMAIN tools |-> tools[i].namespacedName]

\* The loop condition: the next turn starts with createStream(messages,
\* tools), or the loop is left.  catalog is what the manager's
\* getAllTools() holds at that moment.
AtLoopTest(l, catalog) ==
    IF l.turn < l.maxTurns
    THEN [l EXCEPT !.pc = "stream", !.sent = l.tools,
                   !.catalog = mcpToolsToClaude(catalog)]
    ELSE [l EXCEPT !.pc = "done", !.reachedMax = TRUE]

\* loop.next is the position of the for-of over toolUseBlocks, loop.pending
\* the blocks whose executeToolCall has not returned, loop.trace the calls
\* of the turn as they began and ended, each with the loaded toolsets and
\* the session of that moment.
NoLoop == [pc |-> "new", given |-> FALSE, ctxMaxTurns |-> 0, maxTurns |-> 0,
           turn |-> 0, tools |-> <<>>, sent |-> <<>>, catalog |-> <<>>,
           first |-> 1,
           toolUseBlocks |-> <<>>, next |-> 1, pending |-> {},
           toolResults |-> <<>>, trace |-> <<>>, reachedMax |-> FALSE]

LoopIdleInit ==
    /\ messages = <<>>
    /\ loop = NoLoop

LoopInit ==
    /\ messages \in {<<>>, EarlierHistory}
    /\ \E m \in CtxMaxTurns :
          loop = [NoLoop EXCEPT !.given = m.given, !.ctxMaxTurns = m.value]

\* chat: the manager is connected before the first line is read.
ChatStartup(config) ==
    /\ loop.pc = "new"
    /\ RunConnectAll(config)
    /\ loop' = [loop EXCEPT !.pc = "ready"]
    /\ UNCHANGED <<messages, session, catVars, outsideLoop>>

\* runAgentLoop(userMessage, ctx), up to the first await.
EnterAgentLoop ==
    /\ messages' = Append(messages, Message("user", "prompt"))
    /\ loop' = AtLoopTest(
            [loop EXCEPT
                !.maxTurns = IF loop.given THEN loop.ctxMaxTurns
                             ELSE DEFAULT_MAX_TURNS,
                !.tools = mcpToolsToClaude(getAllTools(TheManager)),
                !.first = Len(messages) + 1,
                !.toolUseBlocks = <<>>, !.next = 1, !.pending = {},
                !.toolResults = <<>>, !.trace = <<>>,
                !.reachedMax = FALSE,
                !.turn = 0],
            getAllTools(TheManager))

RunAgentLoop ==
    /\ loop.pc = "ready"
    /\ EnterAgentLoop
    /\ UNCHANGED <<fleetVars, session, catVars, outsideLoop>>

\* streamResponse has returned: the response holds the tool_use blocks
\* toolUses.
StreamReturns(toolUses) ==
    /\ loop.pc = "stream"
    /\ IF toolUses = <<>>
       THEN /\ messages' = Append(messages, Message("assistant", "text"))
            /\ loop' = [loop EXCEPT !.pc = "done"]
       ELSE /\ messages' = Append(messages, Message("assistant", "tool_use"))
            /\ loop' = [loop EXCEPT !.pc = "tool",
                                    !.toolUseBlocks = toolUses,
                                    !.next = 1, !.pending = {},
                                    !.toolResults = <<>>, !.trace = <<>>]

StreamDrained(toolUses) ==
    /\ StreamReturns(toolUses)
    /\ UNCHANGED <<fleetVars, session, catVars, outsideLoop>>

\* The text a meta-tool answers with: spike__list_toolsets a JSON array,
\* the others a sentence.
MetaText(toolName) ==
    IF toolName = LIST_TOOLSETS THEN Text("array", <<>>) ELSE PlainText

\* executeToolCall(manager, name, input): the text and isError made of what
\* manager.callTool did (callResult) and, for a forwarded call, of what
\* the upstream answered.
executeToolCall(name, callResult, answer) ==
    CASE callResult.outcome = "forwarded" ->
            [result |-> answer.text, isError |-> answer.isError]
      [] callResult.outcome = "thrown" ->
            [result |-> PlainText, isError |-> TRUE]
      [] OTHER ->
            [result |-> MetaText(name), isError |-> callResult.isError]

\* const { result, isError } = await executeToolCall(...): the for-of body
\* is resumed, and goes on to the next block, once the call has returned.
AwaitsToolCall_Not(l) == TRUE

AwaitsToolCall(l) == l.pending = {}

TraceEvent(kind, i, loaded, s) ==
    [kind |-> kind, index |-> i, loaded |-> loaded, session |-> s]

\* The rest of the for-of body for block i, whose call returned r, and the
\* end of the turn after the last block: the loop and the message list.
AfterToolCall_MessagePerResult(l, msgs, i, r, loaded, s) ==
    LET l1 == [l EXCEPT
                 !.pending = @ \ {i},
                 !.toolResults = Append(@, [tool_use_id |-> i,
                                            is_error |-> r.isError]),
                 !.trace = Append(@, TraceEvent("end", i, loaded, s))]
        pushed == Append(msgs, Message("user", "tool_result"))
    IN  IF l1.next <= Len(l1.toolUseBlocks) \/ l1.pending # {}
        THEN [loop |-> l1, messages |-> pushed]
        ELSE [loop |-> AtLoopTest(
                           [l1 EXCEPT !.turn = NextTurn(l.turn)],
                           getAllTools(Manager(upstreams, serverConfigs,
                                               options, toolsetManager,
                                               loaded))),
              messages |-> pushed]

AfterToolCall(l, msgs, i, r, loaded, s) ==
    LET l1 == [l EXCEPT
                 !.pending = @ \ {i},
                 !.toolResults = Append(@, [tool_use_id |-> i,
                                            is_error |-> r.isError]),
                 !.trace = Append(@, TraceEvent("end", i, loaded, s))]
    IN  IF l1.next <= Len(l1.toolUseBlocks) \/ l1.pending # {}
        THEN [loop |-> l1, messages |-> msgs]
        ELSE [loop |-> AtLoopTest(
                           [l1 EXCEPT !.turn = NextTurn(l.turn)],
                           getAllTools(Manager(upstreams, serverConfigs,
                                               options, toolsetManager,
                                               loaded))),
              messages |-> Append(msgs, Message("user", "tool_result"))]

\* The for-of body for the next tool_use block, up to the await.  A call
\* that the manager answers itself (a meta-tool, or an error thrown) has
\* returned before any other event is handled; a forwarded call is in
\* flight.  hooks: whether ctx.onToolCallEnd is the chat REPL's.
LoopToolCallStarts(hooks) ==
    LET i == loop.next
        name == loop.toolUseBlocks[i].name
        callResult == callTool(TheManager, name, loop.toolUseBlocks[i].input)
        r == executeToolCall(name, callResult, UpstreamResult(PlainText, FALSE))
        after == Manager(upstreams, serverConfigs, options, toolsetManager,
                         callResult.loaded)
        tracked == IF hooks
                   THEN trackToolCallForSession(name, r.result, r.isError,
                                                getAllTools(after), session)
                   ELSE session
        started == [loop EXCEPT
                      !.next = i + 1,
                      !.pending = @ \cup {i},
                      !.trace = Append(@, TraceEvent("start", i,
                                                     loadedToolsets, session))]
    IN  /\ loop.pc = "tool"
        /\ loop.next <= Len(loop.toolUseBlocks)
        /\ AwaitsToolCall(loop)
        /\ loadedToolsets' = callResult.loaded
        /\ IF callResult.outcome = "forwarded"
           THEN /\ loop' = started
                /\ UNCHANGED <<messages, session>>
           ELSE LET done == AfterToolCall(started, messages, i, r,
                                          callResult.loaded, tracked)
                IN  /\ loop' = done.loop
                    /\ messages' = done.messages
                    /\ session' = tracked

ToolCallStarts ==
    /\ LoopToolCallStarts(FALSE)
    /\ UNCHANGED <<fleetVars, options, toolsetManager, lastCall, outsideLoop>>

\* The upstream has answered the forwarded call of block i.
LoopToolCallReturns(i, answer, hooks) ==
    LET name == loop.toolUseBlocks[i].name
        r == [result |-> answer.text, isError |-> answer.isError]
        tracked == IF hooks
                   THEN trackToolCallForSession(name, r.result, r.isError,
                                                getAllTools(TheManager),
                                                session)
                   ELSE session
        done == AfterToolCall(loop, messages, i, r, loadedToolsets, tracked)
    IN  /\ loop.pc = "tool"
        /\ i \in loop.pending
        /\ loop' = done.loop
        /\ messages' = done.messages
        /\ session' = tracked

\* upstreamError: whether the upstream answered isError.
ToolCallReturns(upstreamError) ==
    /\ \E i \in loop.pending :
          LoopToolCallReturns(i, UpstreamResult(PlainText, upstreamError),
                              FALSE)
    /\ UNCHANGED <<fleetVars, catVars, outsideLoop>>

NextLoop ==
    \/ \E config \in ChatConfigs : ChatStartup(config)
    \/ RunAgentLoop
    \/ \E toolUses \in Responses : StreamDrained(toolUses)
    \/ ToolCallStarts
    \/ \E upstreamError \in BOOLEAN : ToolCallReturns(upstreamError)

\* The assistant messages this call of runAgentLoop has appended.
AssistantAppended ==
    Cardinality({i \in loop.first..Len(messages) :
                    messages[i].role = "assistant"})

(***************************************************************************)
(* The chat REPL (startChatRepl): one message list and one SessionState    *)
(* for the session; each line read is handled by an async callback, so a   *)
(* line is taken while the handling of an earlier one awaits a tool call   *)
(* or a stream.  The model keeps at most one direct tool call and one      *)
(* agent loop in flight.                                                   *)
(***************************************************************************)
FROM == <<"f", "r", "o", "m">>
TO == <<"t", "o">>
TIME_CONTROL ==
    <<"t", "i", "m", "e", "_", "c", "o", "n", "t", "r", "o", "l">>

\* NamespacedTool.inputSchema, as the upstream advertises it: the
\* properties that declare a default, and the required names.
InputSchema(originalName) ==
    CASE originalName = CHESS_CREATE_GAME ->
            [defaults |-> <<[k |-> TIME_CONTROL, v |-> "RAPID_10"]>>,
             required |-> <<>>]
      [] originalName = CHESS_MAKE_MOVE ->
            [defaults |-> <<>>, required |-> <<GAME_ID, FROM, TO>>]
      [] OTHER -> [defaults |-> <<>>, required |-> <<>>]

\* extractDefaults(schema)
extractDefaults(schema) == schema.defaults

\* { ...defaults, ...userArgs }
RECURSIVE Spread(_, _)
Spread(base, more) ==
    IF more = <<>> THEN base
    ELSE Spread(MapSet(base, Head(more).k, Head(more).v), Tail(more))

\* The "auto-fill ID params from session state" loop over schema.required.
RECURSIVE AutoFill(_, _, _)
AutoFill(s, mergedArgs, required) ==
    IF required = <<>> THEN mergedArgs
    ELSE LET paramName == Head(required)
             latestId == getLatestId(s, paramName)
         IN  IF MapHas(mergedArgs, paramName)
             THEN AutoFill(s, mergedArgs, Tail(required))
             ELSE IF (EndsWith(paramName, UNDERSCORE_ID) \/ paramName = ID)
                     /\ latestId.found
             THEN AutoFill(s, MapSet(mergedArgs, paramName, latestId.id),
                           Tail(required))
             ELSE AutoFill(s, mergedArgs, Tail(required))

\* getRequiredParams(schema).filter(p => !(p.name in mergedArgs))
MissingParams(schema, mergedArgs) ==
    SelectSeq(schema.required,
              LAMBDA name : /\ ~MapHas(extractDefaults(schema), name)
                            /\ ~MapHas(mergedArgs, name))

\* resolveToolName(command, tools) up to its exact matches: on the
\* namespaced name, on the original name, on the name without namespace.
resolveToolName(command, tools) ==
    LET first(P(_)) ==
            LET at == {i \in DOMAIN tools : P(tools[i])} IN
            IF at = {} THEN [found |-> FALSE]
            ELSE [found |-> TRUE,
                  tool |-> tools[CHOOSE i \in at : \A j \in at : i <= j]]
        exact == first(LAMBDA t : t.namespacedName = command)
        exactOriginal == first(LAMBDA t : t.originalName = command)
        exactStripped ==
            first(LAMBDA t : stripNamespace(t.namespacedName, t.serverName,
                                            DEFAULT_SEPARATOR) = command)
    IN  IF exact.found THEN exact
        ELSE IF exactOriginal.found THEN exactOriginal
        ELSE exactStripped

\* The lines the model reads at most.
MaxLines == 2

\* maxTurns of `spike chat --max-turns`.
ReplMaxTurns == 1..MaxTurns

ReplConfig == <<[k |-> SrvA, v |-> CfgV1], [k |-> SrvS, v |-> CfgV1]>>

\* The direct tool invocations typed: the command and the JSON arguments.
Moves == <<[k |-> FROM, v |-> "e2"], [k |-> TO, v |-> "e4"]>>
SlashCalls ==
    {[command |-> CHESS_CREATE_GAME, userArgs |-> <<>>],
     [command |-> SET_PROJECT_ROOT, userArgs |-> <<>>],
     [command |-> CHESS_MAKE_MOVE, userArgs |-> Moves]}

\* What the user answers to promptForParam: nothing, or a value.
PromptAnswers == {"", "game_typed"}

\* What the upstream answers to a forwarded call.
GameAbc == Text("object", <<Field(ID, "game_abc")>>)
ReplAnswers ==
    {UpstreamResult(GameAbc, FALSE),
     UpstreamResult(PlainText, FALSE),
     UpstreamResult(PlainText, TRUE)}

\* The responses of the LLM in the chat.
LoadT1 == ToolUse(LOAD_TOOLSET, [name |-> "T1"])
CallY == ToolUse(namespaceTool(SrvA, <<"y">>, DEFAULT_SEPARATOR), NoArgs)
CallCreate ==
    ToolUse(namespaceTool(SrvS, CHESS_CREATE_GAME, DEFAULT_SEPARATOR), NoArgs)
ReplResponses == {<<>>, <<CallY>>, <<LoadT1, CallY>>, <<CallCreate, CallY>>}

NoSlash == [pc |-> "idle", tool |-> [found |-> FALSE], userArgs |-> <<>>,
            args |-> <<>>, missing |-> <<>>, seen |-> NewSession]

\* repl.dispatched is the direct call handed to the manager last, with the
\* session as it was when its line was read; repl.returned the tool call that returned last,
\* with the session before and after its bookkeeping.
NoRepl == [lines |-> 0, slash |-> NoSlash,
           dispatched |-> [made |-> FALSE],
           returned |-> [path |-> "none", isError |-> FALSE,
                         before |-> NewSession, after |-> NewSession]]

ReplIdleInit ==
    /\ session = NewSession
    /\ repl = NoRepl

ReplLoopInit ==
    /\ messages = <<>>
    /\ \E n \in ReplMaxTurns :
          loop = [NoLoop EXCEPT !.given = TRUE, !.ctxMaxTurns = n]

Returned_(path, isError, before, after) ==
    [path |-> path, isError |-> isError, before |-> before, after |-> after]

\* chat: connectAll, the ToolsetManager when lazyLoading is set, then
\* startChatRepl.
ReplStartup(lazyLoading) ==
    /\ loop.pc = "new"
    /\ RunConnectAll(ReplConfig)
    /\ toolsetManager' = IF lazyLoading
                         THEN [attached |-> TRUE, toolsets |-> Toolsets]
                         ELSE toolsetManager
    /\ loop' = [loop EXCEPT !.pc = "ready"]
    /\ UNCHANGED <<messages, options, loadedToolsets, lastCall, replVars,
                   outsideRepl>>

\* A line is read while the REPL runs.
ReadsLine ==
    /\ loop.pc # "new"
    /\ repl.lines < MaxLines

\* "/clear": messages.length = 0.
LineClear ==
    /\ ReadsLine
    /\ messages' = <<>>
    /\ repl' = [repl EXCEPT !.lines = @ + 1]
    /\ UNCHANGED <<loop, session, fleetVars, catVars, outsideRepl>>

\* A line that is no slash command: runAgentLoop(trimmed, ...).
LinePrompt ==
    /\ ReadsLine
    /\ loop.pc \in {"ready", "done"}
    /\ EnterAgentLoop
    /\ repl' = [repl EXCEPT !.lines = @ + 1]
    /\ UNCHANGED <<session, fleetVars, catVars, outsideRepl>>

ReplStreamDrained(toolUses) ==
    /\ StreamReturns(toolUses)
    /\ UNCHANGED <<session, repl, fleetVars, catVars, outsideRepl>>

ReplToolCallStarts ==
    LET name == loop.toolUseBlocks[loop.next].name
        callResult == callTool(TheManager, name,
                               loop.toolUseBlocks[loop.next].input)
        r == executeToolCall(name, callResult,
                             UpstreamResult(PlainText, FALSE))
    IN  /\ LoopToolCallStarts(TRUE)
        /\ repl' = IF callResult.outcome = "forwarded" THEN repl
                   ELSE [repl EXCEPT !.returned =
                            Returned_("loop", r.isError, session, session')]
    /\ UNCHANGED <<fleetVars, options, toolsetManager, lastCall, outsideRepl>>

ReplToolCallReturns(answer) ==
    /\ \E i \in loop.pending : LoopToolCallReturns(i, answer, TRUE)
    /\ repl' = [repl EXCEPT !.returned =
                   Returned_("loop", answer.isError, session, session')]
    /\ UNCHANGED <<fleetVars, catVars, outsideRepl>>

\* handleDirectToolCall from "Execute the tool" on: executeToolCall up to
\* its await.  A call the manager throws on has returned before any other
\* event is handled.
Dispatch(lines, tool, userArgs, mergedArgs, seen) ==
    LET callResult == callTool(TheManager, tool.namespacedName, NoArgs)
        r == executeToolCall(tool.namespacedName, callResult,
                             UpstreamResult(PlainText, FALSE))
        sent == [made |-> TRUE, name |-> tool.namespacedName,
                 userArgs |-> userArgs, args |-> mergedArgs,
                 seen |-> seen]
        tracked == TrackDirectToolCall(session, tool, r.result, r.isError)
    IN  IF callResult.outcome = "forwarded"
        THEN /\ repl' = [repl EXCEPT
                            !.lines = lines,
                            !.slash = [NoSlash EXCEPT !.pc = "calling",
                                                      !.tool = tool],
                            !.dispatched = sent]
             /\ UNCHANGED session
        ELSE /\ repl' = [repl EXCEPT
                            !.lines = lines,
                            !.slash = NoSlash,
                            !.dispatched = sent,
                            !.returned = Returned_("slash", r.isError,
                                                   session, tracked)]
             /\ session' = tracked

\* "/<tool_name> [json-args]": handleDirectToolCall up to its first await.
LineTool(call) ==
    LET resolved == resolveToolName(call.command, getAllTools(TheManager))
        schema == InputSchema(resolved.tool.originalName)
        mergedArgs == AutoFill(session,
                               Spread(extractDefaults(schema), call.userArgs),
                               schema.required)
        missingParams == MissingParams(schema, mergedArgs)
    IN  /\ ReadsLine
        /\ repl.slash.pc = "idle"
        /\ IF ~resolved.found
           THEN /\ repl' = [repl EXCEPT !.lines = @ + 1]
                /\ UNCHANGED session
           ELSE IF missingParams # <<>>
           THEN /\ repl' = [repl EXCEPT
                               !.lines = @ + 1,
                               !.slash = [NoSlash EXCEPT
                                             !.pc = "prompt",
                                             !.tool = resolved.tool,
                                             !.userArgs = call.userArgs,
                                             !.args = mergedArgs,
                                             !.missing = missingParams,
                                             !.seen = session]]
                /\ UNCHANGED session
           ELSE Dispatch(repl.lines + 1, resolved.tool, call.userArgs,
                         mergedArgs, session)
        /\ UNCHANGED <<messages, loop, fleetVars, catVars, outsideRepl>>

\* promptForParam has returned for the first missing parameter.
PromptAnswered(value) ==
    LET slash == repl.slash
        mergedArgs == MapSet(slash.args, Head(slash.missing), value)
    IN  /\ slash.pc = "prompt"
        /\ IF value = ""
           THEN /\ repl' = [repl EXCEPT !.slash = NoSlash]
                /\ UNCHANGED session
           ELSE IF Tail(slash.missing) # <<>>
           THEN /\ repl' = [repl EXCEPT !.slash.args = mergedArgs,
                                        !.slash.missing = Tail(@)]
                /\ UNCHANGED session
           ELSE Dispatch(repl.lines, slash.tool, slash.userArgs, mergedArgs,
                         slash.seen)
        /\ UNCHANGED <<messages, loop, fleetVars, catVars, outsideRepl>>

\* The upstream has answered the direct call: the bookkeeping after
\* executeToolCall.
DirectCallReturns(answer) ==
    LET tracked == TrackDirectToolCall(session, repl.slash.tool, answer.text,
                                       answer.isError)
    IN  /\ repl.slash.pc = "calling"
        /\ session' = tracked
        /\ repl' = [repl EXCEPT
                       !.slash = NoSlash,
                       !.returned = Returned_("slash", answer.isError,
                                              session, tracked)]
        /\ UNCHANGED <<messages, loop, fleetVars, catVars, outsideRepl>>

NextRepl ==
    \/ \E lazyLoading \in BOOLEAN : ReplStartup(lazyLoading)
    \/ LineClear
    \/ LinePrompt
    \/ \E call \in SlashCalls : LineTool(call)
    \/ \E value \in PromptAnswers : PromptAnswered(value)
    \/ \E answer \in ReplAnswers : DirectCallReturns(answer)
    \/ \E toolUses \in ReplResponses : ReplStreamDrained(toolUses)
    \/ ReplToolCallStarts
    \/ \E answer \in ReplAnswers : ReplToolCallReturns(answer)

(***************************************************************************)
(* 4.E Reconnect scheduler (multiplexer/reconnect.ts).  A timer is a       *)
(* record [id, name, attempt, delay]; sched.armed holds the timers that    *)
(* setTimeout installed and that neither fired nor were cleared,           *)
(* sched.running the timer callbacks that await reconnectFn.               *)
(***************************************************************************)
\* DEFAULT_OPTIONS
DEFAULT_MAX_ATTEMPTS == 5
DEFAULT_INITIAL_DELAY_MS == 1000
DEFAULT_MAX_DELAY_MS == 30000

\* The largest maxAttempts the model's callers pass to the constructor.
MaxAttempts == 2

\* The calls of scheduleReconnect and cancelAll made from outside.
MaxExternalCalls == 3

ReconnectNames == {SrvA, SrvB}

\* calculateBackoff(attempt, options), with the default delays.
calculateBackoff(attempt) ==
    LET delay == DEFAULT_INITIAL_DELAY_MS * (2 ^ attempt) IN
    IF delay < DEFAULT_MAX_DELAY_MS THEN delay ELSE DEFAULT_MAX_DELAY_MS

\* new ReconnectManager(reconnectFn, options).  The history kept with it:
\* invoked counts the calls of reconnectFn per upstream since its failure
\* episode began, episode tells whether the episode is running, was given
\* up at the cap, or is over; last is the event handled last; cancelled
\* tells that cancelAll has returned and that scheduleReconnect has not
\* been called from outside since.
ReconnectManager(maxAttempts) ==
    [maxAttempts |-> maxAttempts, activeRetries |-> <<>>,
     armed |-> {}, running |-> {}, nextTimer |-> 1, external |-> 0,
     cancelled |-> FALSE,
     invoked |-> [n \in ReconnectNames |-> 0],
     episode |-> [n \in ReconnectNames |-> "none"],
     last |-> [event |-> "none", name |-> <<>>]]

\* scheduleReconnect(serverName, config)
scheduleReconnect(s, serverName) ==
    LET existing == MapHas(s.activeRetries, serverName)
        attempt == IF existing
                   THEN MapGet(s.activeRetries, serverName).attempt + 1
                   ELSE 0
        timer == [id |-> s.nextTimer, name |-> serverName,
                  attempt |-> attempt, delay |-> calculateBackoff(attempt)]
    IN  IF attempt >= s.maxAttempts
        THEN [s EXCEPT !.activeRetries = MapDelete(@, serverName),
                       !.episode[serverName] = "gaveUp"]
        ELSE [s EXCEPT !.armed = @ \cup {timer},
                       !.nextTimer = @ + 1,
                       !.activeRetries =
                           MapSet(@, serverName,
                                  [timer |-> timer.id, attempt |-> attempt])]

\* cancelAll(): clearTimeout on every recorded timer, then clear().
cancelAll(s) ==
    LET recorded == {s.activeRetries[i].v.timer : i \in DOMAIN s.activeRetries}
    IN  [s EXCEPT !.armed = {t \in @ : t.id \notin recorded},
                  !.activeRetries = <<>>]

SchedulerIdleInit == sched = ReconnectManager(DEFAULT_MAX_ATTEMPTS)

SchedulerInit ==
    \E maxAttempts \in (0..MaxAttempts) \cup {DEFAULT_MAX_ATTEMPTS} :
        sched = ReconnectManager(maxAttempts)

\* scheduleReconnect called from outside: an upstream was lost.
ScheduleReconnect(serverName) ==
    LET begun == IF sched.episode[serverName] = "running" THEN sched
                 ELSE [sched EXCEPT !.episode[serverName] = "running",
                                    !.invoked[serverName] = 0]
    IN  /\ sched.external < MaxExternalCalls
        /\ sched' = [scheduleReconnect(begun, serverName) EXCEPT
                        !.external = @ + 1,
                        !.cancelled = FALSE,
                        !.last = [event |-> "scheduleReconnect",
                                  name |-> serverName]]
        /\ UNCHANGED outsideScheduler

\* cancelAll called from outside.
CancelAll ==
    /\ sched.external < MaxExternalCalls
    /\ sched' = [cancelAll(sched) EXCEPT
                    !.external = @ + 1,
                    !.cancelled = TRUE,
                    !.last = [event |-> "cancelAll", name |-> <<>>]]
    /\ UNCHANGED outsideScheduler

\* An armed timer fires: its callback calls reconnectFn and awaits it.
TimerFires(timer) ==
    /\ timer \in sched.armed
    /\ sched' = [sched EXCEPT
                    !.armed = @ \ {timer},
                    !.running = @ \cup {timer},
                    !.invoked[timer.name] = @ + 1,
                    !.last = [event |-> "fired", name |-> timer.name]]
    /\ UNCHANGED outsideScheduler

\* reconnectFn has settled for the callback of timer: resolved or rejected.
ReconnectSettles(timer, resolved) ==
    LET returned == [sched EXCEPT !.running = @ \ {timer}] IN
    /\ timer \in sched.running
    /\ sched' =
          IF resolved
          THEN [returned EXCEPT
                   !.activeRetries = MapDelete(@, timer.name),
                   !.episode[timer.name] = "over",
                   !.last = [event |-> "reconnected", name |-> timer.name]]
          ELSE [scheduleReconnect(returned, timer.name) EXCEPT
                   !.last = [event |-> "failed", name |-> timer.name]]
    /\ UNCHANGED outsideScheduler

NextScheduler ==
    \/ \E n \in ReconnectNames : ScheduleReconnect(n)
    \/ CancelAll
    \/ \E timer \in sched.armed : TimerFires(timer)
    \/ \E timer \in sched.running :
          \E resolved \in BOOLEAN : ReconnectSettles(timer, resolved)

(***************************************************************************)
(* 4.G Downstream multiplexer server: the tools/call handler of the stdio  *)
(* server (MultiplexerServer) and of the HTTP and SSE servers              *)
(* (createMcpServer), in front of one ServerManager.  What manager.callTool*)
(* did is an outcome: it returned a CallResult or it raised an error.      *)
(***************************************************************************)
TextBlock(text) == [type |-> "text", text |-> text]

CallReturned(isError, content) ==
    [raised |-> FALSE, message |-> "", isError |-> isError,
     content |-> content]

CallRaised(message) ==
    [raised |-> TRUE, message |-> message, isError |-> FALSE,
     content |-> <<>>]

\* What the MCP server sends back: the handler's CallResult, or a protocol
\* fault when the handler threw.
HandlerReturns(outcome, result) ==
    [kind |-> "result", isError |-> result.isError,
     content |-> result.content,
     raised |-> outcome.raised, message |-> outcome.message]

HandlerThrows(outcome) ==
    [kind |-> "fault", isError |-> FALSE, content |-> <<>>,
     raised |-> outcome.raised, message |-> outcome.message]

ErrorResult(message) ==
    [isError |-> TRUE, content |-> <<TextBlock(<<"Error: ", message>>)>>]

\* MultiplexerServer.registerHandlers: the CallToolRequestSchema handler.
handleCallTool_NoCatch(outcome) ==
    IF outcome.raised THEN HandlerThrows(outcome)
    ELSE HandlerReturns(outcome, outcome)

handleCallTool(outcome) ==
    IF outcome.raised
    THEN HandlerReturns(outcome, ErrorResult(outcome.message))
    ELSE HandlerReturns(outcome, outcome)

\* registerMcpHandlers: the handler of every server of createMcpServer.
registerMcpHandlers(outcome) ==
    IF outcome.raised
    THEN HandlerReturns(outcome, ErrorResult(outcome.message))
    ELSE HandlerReturns(outcome, outcome)

ServeTransports == {"stdio", "http", "sse"}

\* What an upstream does with a forwarded call.
UpstreamAnswers == {"ok", "isError", "rejects"}

NoReply == [kind |-> "none", isError |-> FALSE, content |-> <<>>,
            raised |-> FALSE, message |-> ""]

\* serve --transport: down holds the upstreams whose transport closed
\* since connectAll, reply the answer to the tools/call served last.
EdgeServer(transport) ==
    [transport |-> transport, down |-> {}, reply |-> NoReply]

EdgeIdleInit == edge = EdgeServer("stdio")

EdgeInit == \E transport \in ServeTransports : edge = EdgeServer(transport)

\* await manager.callTool(name, args), the upstream's answer included.
ManagerCall(m, down, namespacedName, args, answer) ==
    LET result == callTool(m, namespacedName, args) IN
    CASE result.outcome = "thrown" -> CallRaised(result.error)
      [] result.outcome = "meta" ->
            CallReturned(result.isError, <<TextBlock(<<"meta">>)>>)
      [] OTHER ->
            IF result.serverName \in down \/ answer = "rejects"
            THEN CallRaised("upstream call failed")
            ELSE CallReturned(answer = "isError", <<TextBlock(<<answer>>)>>)

\* A connected upstream's transport closes.  UpstreamClient installs no
\* close or error callback: nothing in the program reacts.
UpstreamDisconnects(name) ==
    /\ lastOp.op # "none"
    /\ MapHas(upstreams, name)
    /\ name \notin edge.down
    /\ edge' = [edge EXCEPT !.down = @ \cup {name}]
    /\ UNCHANGED <<fleetVars, catVars, outsideEdge>>

\* A downstream client's tools/call, served by the handler of the transport.
ToolsCall(namespacedName, args, answer) ==
    LET outcome == ManagerCall(TheManager, edge.down, namespacedName, args,
                               answer)
    IN  /\ lastOp.op # "none"
        /\ edge' = [edge EXCEPT !.reply =
                       IF edge.transport = "stdio"
                       THEN handleCallTool(outcome)
                       ELSE registerMcpHandlers(outcome)]
        /\ loadedToolsets' = callTool(TheManager, namespacedName, args).loaded
        /\ UNCHANGED <<fleetVars, options, toolsetManager, lastCall,
                       outsideEdge>>

NextEdge ==
    \/ \E config \in ResolvedConfigs : Serve(config)
    \/ \E name \in FleetNames : UpstreamDisconnects(name)
    \/ \E w \in WireNames :
          \E args \in (IF isMetaTool(w) THEN CallArgs ELSE {NoArgs}) :
             \E answer \in UpstreamAnswers : ToolsCall(w, args, answer)

(***************************************************************************)
(* 6.3 HTTP transport (transport/http-server.ts): the requests served by   *)
(* startHttpServer, and the shutdown of serve.  A session id is a number,  *)
(* 0 stands for undefined.  http.objects holds every                       *)
(* StreamableHTTPServerTransport constructed, http.transports is the Map   *)
(* from session id to transport (its index in objects), http.issued the    *)
(* session ids sent to clients in a response.                              *)
(***************************************************************************)
\* The transports the model lets the server construct.
MaxTransports == 3

\* A session id that no transport generated.
GhostSession == MaxTransports + 1

\* U+00E9, a character of one UTF-16 unit and two UTF-8 bytes.  A header
\* value reaches the handler as a string of the bytes' code points.
E_ACUTE == "\\u00e9"

\* Buffer.from(str).length: the UTF-8 bytes of a string.
RECURSIVE ByteLength(_)
ByteLength(str) ==
    IF str = <<>> THEN 0
    ELSE (IF Head(str) = E_ACUTE THEN 2 ELSE 1) + ByteLength(Tail(str))

\* safeCompare(a, b): timingSafeEqual throws on buffers of different
\* byte length.
safeCompare(a, b) ==
    IF Len(a) # Len(b) THEN [threw |-> FALSE, equal |-> FALSE]
    ELSE IF ByteLength(a) # ByteLength(b)
         THEN [threw |-> TRUE, equal |-> FALSE]
         ELSE [threw |-> FALSE, equal |-> a = b]

\* A header or an option: absent, or a string.
Absent == [present |-> FALSE, value |-> <<>>]
Given(value) == [present |-> TRUE, value |-> value]

\* if (options.apiKey) { ... }: "pass", "401", or "threw".
CheckApiKey(apiKey, provided) ==
    IF ~apiKey.present \/ apiKey.value = <<>> THEN "pass"
    ELSE IF ~provided.present THEN "401"
    ELSE LET c == safeCompare(provided.value, apiKey.value) IN
         IF c.threw THEN "threw"
         ELSE IF c.equal THEN "pass" ELSE "401"

\* The apiKey options and the X-Api-Key headers of the model.
ApiKeyOptions == {Absent, Given(<<"k">>)}
ApiKeyHeaders ==
    {Absent, Given(<<"k">>), Given(<<"x">>), Given(<<"k", "k">>),
     Given(<<E_ACUTE>>)}

\* new StreamableHTTPServerTransport({sessionIdGenerator}): the transport
\* has no session id until it handles an initialize request.
StreamableHTTPServerTransport ==
    [sessionId |-> 0, initialized |-> FALSE, closed |-> FALSE]

\* What is kept of the request handled last.  status 0: no response was
\* written; transport 0: the request reached no transport.
NoRequest == [method |-> "none", path |-> "", provided |-> Absent,
              header |-> 0, status |-> 0, transport |-> 0,
              created |-> FALSE, threw |-> FALSE]

Handled(method, path, provided, status) ==
    [NoRequest EXCEPT !.method = method, !.path = path,
                      !.provided = provided, !.status = status]

\* phase: "serving", then the steps of shutdown on signal; log: what
\* shutdown did.
HttpServer(apiKey) ==
    [apiKey |-> apiKey, transports |-> <<>>, objects |-> <<>>,
     issued |-> {}, last |-> NoRequest,
     phase |-> "serving", signal |-> "none", log |-> <<>>]

HttpIdleInit == http = HttpServer(Absent)

HttpInit == \E apiKey \in ApiKeyOptions : http = HttpServer(apiKey)

\* transport.handleRequest for a POST: an initialize request generates the
\* session id; any other request must carry the id of an initialized
\* transport.
HandlePost(t, id, header, isInitialize) ==
    IF isInitialize
    THEN IF t.initialized
         THEN [transport |-> t, status |-> 400, issued |-> 0]
         ELSE [transport |-> [t EXCEPT !.sessionId = id,
                                       !.initialized = TRUE],
               status |-> 200, issued |-> id]
    ELSE IF ~t.initialized \/ header = 0
         THEN [transport |-> t, status |-> 400, issued |-> 0]
         ELSE IF header # t.sessionId
         THEN [transport |-> t, status |-> 404, issued |-> 0]
         ELSE [transport |-> t, status |-> 200, issued |-> 0]

\* transport.handleRequest for a GET: the SSE stream of the session.
HandleGet(t, header) ==
    IF ~t.initialized \/ header = 0 THEN 400
    ELSE IF header # t.sessionId THEN 404
    ELSE 200

\* The session ids a client may send: none, one it was given, a made-up one.
SessionHeaders == {0, GhostSession} \cup http.issued

\* The request is for /mcp and got past the API key validation.
Authorized(provided) ==
    /\ http.phase = "serving"
    /\ CheckApiKey(http.apiKey, provided) = "pass"

\* GET /health
Health(provided) ==
    /\ http.phase = "serving"
    /\ http' = [http EXCEPT !.last = Handled("GET", "/health", provided, 200)]
    /\ UNCHANGED outsideHttp

\* A request for another path.
OtherPath(provided) ==
    /\ http.phase = "serving"
    /\ http' = [http EXCEPT !.last = Handled("GET", "/other", provided, 404)]
    /\ UNCHANGED outsideHttp

\* A /mcp request that the API key validation stops: answered 401, or not
\* answered at all when safeCompare threw.
Unauthorized(method, provided) ==
    LET check == CheckApiKey(http.apiKey, provided) IN
    /\ http.phase = "serving"
    /\ check # "pass"
    /\ http' = [http EXCEPT !.last =
            [Handled(method, "/mcp", provided,
                     IF check = "401" THEN 401 ELSE 0)
             EXCEPT !.threw = (check = "threw")]]
    /\ UNCHANGED outsideHttp

\* POST /mcp
Post(provided, sessionId, isInitialize) ==
    LET known == sessionId # 0 /\ MapHas(http.transports, sessionId)
        id == IF known THEN MapGet(http.transports, sessionId)
              ELSE Len(http.objects) + 1
        created == StreamableHTTPServerTransport
        \* if (transport.sessionId) transports.set(transport.sessionId, ..)
        recorded == IF known \/ created.sessionId = 0 THEN http.transports
                    ELSE MapSet(http.transports, created.sessionId, id)
        handled == HandlePost(IF known THEN http.objects[id] ELSE created,
                              id, sessionId, isInitialize)
    IN  /\ Authorized(provided)
        /\ known \/ Len(http.objects) < MaxTransports
        /\ http' = [http EXCEPT
              !.transports = recorded,
              !.objects = IF known
                          THEN [@ EXCEPT ![id] = handled.transport]
                          ELSE Append(@, handled.transport),
              !.issued = @ \cup ({handled.issued} \ {0}),
              !.last = [Handled("POST", "/mcp", provided, handled.status)
                        EXCEPT !.header = sessionId, !.transport = id,
                               !.created = ~known]]
        /\ UNCHANGED outsideHttp

\* GET /mcp
Get(provided, sessionId) ==
    LET known == sessionId # 0 /\ MapHas(http.transports, sessionId)
        id == IF known THEN MapGet(http.transports, sessionId) ELSE 0
    IN  /\ Authorized(provided)
        /\ http' = [http EXCEPT
              !.last = [Handled("GET", "/mcp", provided,
                                IF known
                                THEN HandleGet(http.objects[id], sessionId)
                                ELSE 400)
                        EXCEPT !.header = sessionId, !.transport = id]]
        /\ UNCHANGED outsideHttp

\* DELETE /mcp
Delete(provided, sessionId) ==
    LET known == sessionId # 0 /\ MapHas(http.transports, sessionId)
        id == IF known THEN MapGet(http.transports, sessionId) ELSE 0
    IN  /\ Authorized(provided)
        /\ http' = [http EXCEPT
              !.transports = IF known THEN MapDelete(@, sessionId) ELSE @,
              !.objects = IF known THEN [@ EXCEPT ![id].closed = TRUE]
                          ELSE @,
              !.last = [Handled("DELETE", "/mcp", provided, 200)
                        EXCEPT !.header = sessionId, !.transport = id]]
        /\ UNCHANGED outsideHttp

\* Any other method on /mcp.
OtherMethod(provided) ==
    /\ Authorized(provided)
    /\ http' = [http EXCEPT !.last = Handled("PUT", "/mcp", provided, 405)]
    /\ UNCHANGED outsideHttp

\* SIGINT or SIGTERM: shutdown runs up to the end of server.close(), which
\* closes the transports of the session map and clears the map.
ShutdownBegins(signal) ==
    LET recorded == {http.transports[i].v : i \in DOMAIN http.transports}
    IN  /\ http.phase = "serving"
        /\ http' = [http EXCEPT
              !.objects = [i \in DOMAIN @ |->
                              IF i \in recorded
                              THEN [@[i] EXCEPT !.closed = TRUE] ELSE @[i]],
              !.transports = <<>>,
              !.phase = "closed",
              !.signal = signal,
              !.log = Append(@, "transports")]
        /\ UNCHANGED outsideHttp

\* await manager.closeAll()
ShutdownClosesFleet ==
    /\ http.phase = "closed"
    /\ upstreams' = <<>>
    /\ serverConfigs' = <<>>
    /\ http' = [http EXCEPT !.phase = "fleetClosed",
                            !.log = Append(@, "upstreams")]
    /\ UNCHANGED <<currentConfig, lastOp, nsVars, catVars, chain, concVars,
                   loopVars, replVars, edge, sched, moreVars>>

\* process.exit(0)
ShutdownExits ==
    /\ http.phase = "fleetClosed"
    /\ http' = [http EXCEPT !.phase = "exited",
                            !.log = Append(@, "exit 0")]
    /\ UNCHANGED outsideHttp

NextHttp ==
    \/ \E provided \in ApiKeyHeaders : Health(provided)
    \/ \E provided \in ApiKeyHeaders : OtherPath(provided)
    \/ \E method \in {"POST", "GET", "DELETE"} :
          \E provided \in ApiKeyHeaders : Unauthorized(method, provided)
    \/ \E provided \in ApiKeyHeaders :
          \E sessionId \in SessionHeaders :
             \E isInitialize \in BOOLEAN :
                Post(provided, sessionId, isInitialize)
    \/ \E provided \in ApiKeyHeaders :
          \E sessionId \in SessionHeaders : Get(provided, sessionId)
    \/ \E provided \in ApiKeyHeaders :
          \E sessionId \in SessionHeaders : Delete(provided, sessionId)
    \/ \E provided \in ApiKeyHeaders : OtherMethod(provided)
    \/ \E signal \in {"SIGINT", "SIGTERM"} : ShutdownBegins(signal)
    \/ ShutdownClosesFleet
    \/ ShutdownExits

(***************************************************************************)
(* 4.I App registry (chat/app-registry.ts).  An app is a record with its   *)
(* slug and its toolNames; valid tells whether the value parsed from the   *)
(* remote answer has the shape of an AppInfo (an element that is null or   *)
(* has no toolNames array has not, and iterating it throws).               *)
(***************************************************************************)
AppInfo(slug, toolNames) ==
    [slug |-> slug, toolNames |-> toolNames, valid |-> TRUE]

\* An element of the parsed array that is not an AppInfo: { slug } alone.
Malformed(slug) == [slug |-> slug, toolNames |-> <<>>, valid |-> FALSE]

BUNDLED_APP_REGISTRY ==
    << AppInfo("chess-arena", <<"chess_create_game", "chess_make_move">>),
       AppInfo("code-review-agent", <<"review_code">>) >>

\* The for-of over app.toolNames in rebuildIndex.
RECURSIVE IndexTools(_, _, _)
IndexTools(toolToApp, toolNames, app) ==
    IF toolNames = <<>> THEN toolToApp
    ELSE IndexTools(MapSet(toolToApp, Head(toolNames), app),
                    Tail(toolNames), app)

\* The for-of over this.apps in rebuildIndex, from the indices built so
\* far: slugToApp.set, then the tools; it throws at an element that is not
\* an AppInfo, after slugToApp.set when the element is an object.
RECURSIVE IndexApps(_, _)
IndexApps(r, apps) ==
    IF apps = <<>> THEN r
    ELSE LET app == Head(apps)
             slugged == [r EXCEPT !.slugToApp = MapSet(@, app.slug, app)]
         IN  IF ~app.valid THEN [slugged EXCEPT !.threw = TRUE]
             ELSE IndexApps([slugged EXCEPT !.toolToApp =
                                 IndexTools(@, app.toolNames, app)],
                            Tail(apps))

\* rebuildIndex(): clear both Maps, then index this.apps.
rebuildIndex(r) ==
    IndexApps([r EXCEPT !.toolToApp = <<>>, !.slugToApp = <<>>,
                        !.threw = FALSE],
              r.apps)

\* new AppRegistryImpl(apps)
AppRegistryImpl(apps) ==
    rebuildIndex([apps |-> apps, toolToApp |-> <<>>, slugToApp |-> <<>>,
                  threw |-> FALSE])

\* What the remote side answers to store_list_apps_with_tools.
\*   "missing"   no such tool in the catalog
\*   "isError"   the call errored
\*   "notJson"   the text does not parse
\*   "object"    the text parses to something that is not an array
\*   "array"     the text parses to the array apps
RemoteAnswer(kind, apps) == [kind |-> kind, apps |-> apps]

RemoteApps ==
    {AppInfo("chess-arena", <<"chess_create_game">>),
     AppInfo("tests", <<"run_tests", "chess_make_move">>),
     Malformed("broken")}

RemoteAnswers ==
    {RemoteAnswer(k, <<>>) : k \in {"missing", "isError", "notJson", "object"}}
    \cup {RemoteAnswer("array", apps) : apps \in SeqsUpTo(RemoteApps, 2)}

\* refreshFromRemote(manager), from its call to its return.  The catch
\* swallows whatever was thrown.
refreshFromRemote(r, answer) ==
    IF answer.kind # "array" THEN r
    ELSE IF Len(answer.apps) > 0
         THEN rebuildIndex([r EXCEPT !.apps = answer.apps])
         ELSE r

NoRefresh == [done |-> FALSE, answer |-> RemoteAnswer("missing", <<>>),
              before |-> AppRegistryImpl(<<>>)]

RegistryIdleInit ==
    registry = [impl |-> AppRegistryImpl(BUNDLED_APP_REGISTRY),
                last |-> NoRefresh]

RefreshFromRemote(answer) ==
    /\ registry' = [impl |-> refreshFromRemote(registry.impl, answer),
                    last |-> [done |-> TRUE, answer |-> answer,
                              before |-> registry.impl]]
    /\ UNCHANGED outsideRegistry

NextRegistry == \E answer \in RemoteAnswers : RefreshFromRemote(answer)

(***************************************************************************)
(* 4.K Config watcher (config/watcher.ts).  Time is a number of            *)
(* milliseconds; a timer is a record [id, deadline, event] in              *)
(* watcher.armed from setTimeout until it fires or is cleared, where event *)
(* is the index of the file-system event that armed it.  A reload is the   *)
(* callback of a fired timer: it awaits discoverConfig, then calls         *)
(* onChange.                                                               *)
(***************************************************************************)
DEFAULT_DEBOUNCE_MS == 300

\* The file-system events and the advances of time of one run.
MaxEvents == 3
MaxTicks == 4

\* options.debounceMs, when given.
DebounceOptions == {2}

\* new ConfigWatcher(options), then start().
ConfigWatcher(given, debounceMs) ==
    [debounceMs |-> IF given THEN debounceMs ELSE DEFAULT_DEBOUNCE_MS,
     debounceTimer |-> 0, armed |-> {}, nextTimer |-> 1,
     now |-> 0, ticks |-> 0, events |-> <<>>,
     reloads |-> <<>>, running |-> {}, delivered |-> <<>>,
     stopped |-> FALSE]

WatcherIdleInit == watcher = ConfigWatcher(FALSE, 0)

WatcherInit ==
    \E given \in BOOLEAN : \E debounceMs \in DebounceOptions :
        watcher = ConfigWatcher(given, IF given THEN debounceMs ELSE 0)

\* if (this.debounceTimer) clearTimeout(this.debounceTimer)
ClearPending_Not(w) == w

ClearPending(w) ==
    [w EXCEPT !.armed = {t \in @ : t.id # w.debounceTimer}]

\* handleChange(): clear the pending timer, arm a new one.
handleChange(w) ==
    LET cleared == ClearPending(w)
        timer == [id |-> w.nextTimer, deadline |-> w.now + w.debounceMs,
                  event |-> Len(w.events)]
    IN  [cleared EXCEPT !.armed = @ \cup {timer},
                        !.debounceTimer = timer.id,
                        !.nextTimer = @ + 1]

\* A watched file changes: the callback of fs.watch runs handleChange.
FsEvent ==
    /\ ~watcher.stopped
    /\ Len(watcher.events) < MaxEvents
    /\ watcher' = handleChange([watcher EXCEPT !.events = Append(@, watcher.now)])
    /\ UNCHANGED outsideWatcher

\* Time passes, up to the next deadline at most.
Tick(d) ==
    /\ watcher.ticks < MaxTicks
    /\ \A t \in watcher.armed : watcher.now + d <= t.deadline
    /\ watcher' = [watcher EXCEPT !.now = @ + d, !.ticks = @ + 1]
    /\ UNCHANGED outsideWatcher

\* A timer fires at its deadline: the reload begins and awaits
\* discoverConfig, which reads the files as they are now.
DebounceFires(timer) ==
    /\ timer \in watcher.armed
    /\ timer.deadline = watcher.now
    /\ watcher' = [watcher EXCEPT
          !.armed = @ \ {timer},
          !.reloads = Append(@, [event |-> timer.event, at |-> watcher.now,
                                 config |-> Len(watcher.events)]),
          !.running = @ \cup {Len(watcher.reloads) + 1}]
    /\ UNCHANGED outsideWatcher

\* discoverConfig of reload k resolves: onChange(newConfig).
DiscoveryResolves(k) ==
    /\ k \in watcher.running
    /\ watcher' = [watcher EXCEPT
          !.running = @ \ {k},
          !.delivered = Append(@, [reload |-> k,
                                   config |-> watcher.reloads[k].config])]
    /\ UNCHANGED outsideWatcher

\* stop(): close the watchers, clear the pending timer.
Stop ==
    /\ ~watcher.stopped
    /\ watcher' = [ClearPending(watcher) EXCEPT !.stopped = TRUE,
                                                !.debounceTimer = 0]
    /\ UNCHANGED outsideWatcher

TickSteps == {1, watcher.debounceMs - 1, watcher.debounceMs}

NextWatcher ==
    \/ FsEvent
    \/ \E d \in TickSteps : Tick(d)
    \/ \E timer \in watcher.armed : DebounceFires(timer)
    \/ \E k \in watcher.running : DiscoveryResolves(k)
    \/ Stop

(***************************************************************************)
(* 5. connectAll and closeAll as Promise.allSettled over their upstreams.  *)
(* fan.entries are the operations the call mapped over, fan.inFlight the   *)
(* names whose connect() or close() has been called and has not settled,   *)
(* fan.settled the names in the order in which theirs settled,             *)
(* fan.reported those whose failure was logged.                            *)
(***************************************************************************)
\* entries.map(async ...) calls every upstream's operation before any of
\* them is awaited: all that have not settled are in flight.
InFlight_OneByOne(entries, settled) ==
    LET waiting == SelectSeq(MapKeys(entries),
                             LAMBDA n : n \notin Range(settled))
    IN  IF waiting = <<>> THEN {} ELSE {Head(waiting)}

InFlight(entries, settled) ==
    {n \in Range(MapKeys(entries)) : n \notin Range(settled)}

NoFan == [op |-> "none", entries |-> <<>>, inFlight |-> {},
          settled |-> <<>>, reported |-> {}, returned |-> TRUE]

FanIdleInit == fan = NoFan

FanConfigs ==
    { <<[k |-> SrvA, v |-> CfgV1]>>,
      <<[k |-> SrvA, v |-> CfgBad], [k |-> SrvA_, v |-> CfgV1]>>,
      <<[k |-> SrvA, v |-> CfgV1], [k |-> SrvA_, v |-> CfgBad],
        [k |-> SrvB, v |-> CfgV2]>> }

FanBegins(op, entries) ==
    [NoFan EXCEPT !.op = op, !.entries = entries,
                  !.inFlight = InFlight(entries, <<>>),
                  !.returned = (entries = <<>>)]

\* connectAll(config) is called: every connect() begins.
ConnectAllBegins(config) ==
    /\ fan.returned
    /\ fan' = FanBegins("connectAll", config)
    /\ UNCHANGED <<fleetVars, outsideFan>>

\* closeAll() is called: every close() begins.
CloseAllBegins ==
    /\ fan.returned
    /\ fan' = FanBegins("closeAll", upstreams)
    /\ UNCHANGED <<fleetVars, outsideFan>>

\* What is left to do once an operation has settled: allSettled resolves
\* when it was the last one.
FanSettled(name, failed) ==
    LET settled == Append(fan.settled, name) IN
    [fan EXCEPT !.settled = settled,
                !.inFlight = InFlight(fan.entries, settled),
                !.reported = IF failed THEN @ \cup {name} ELSE @,
                !.returned = (Len(settled) = Len(fan.entries))]

\* The connect() of one entry settles: set both Maps, or log the failure.
FanConnectSettles(name) ==
    LET config == MapGet(fan.entries, name)
        ok == ConnectOk(name, config)
    IN  /\ fan.op = "connectAll"
        /\ name \in fan.inFlight
        /\ fan' = FanSettled(name, ~ok)
        /\ upstreams' = IF ok THEN MapSet(upstreams, name,
                                          UpstreamClient(name, config))
                        ELSE upstreams
        /\ serverConfigs' = IF ok THEN MapSet(serverConfigs, name, config)
                            ELSE serverConfigs
        /\ UNCHANGED <<currentConfig, lastOp, outsideFan>>

\* The close() of one upstream settles; it warns when the client's close
\* failed.  After the last one both Maps are cleared.
FanCloseSettles(name, failed) ==
    LET after == FanSettled(name, failed) IN
    /\ fan.op = "closeAll"
    /\ name \in fan.inFlight
    /\ fan' = after
    /\ IF after.returned
       THEN upstreams' = <<>> /\ serverConfigs' = <<>>
       ELSE UNCHANGED <<upstreams, serverConfigs>>
    /\ UNCHANGED <<currentConfig, lastOp, outsideFan>>

NextFan ==
    \/ \E config \in FanConfigs : ConnectAllBegins(config)
    \/ CloseAllBegins
    \/ \E name \in fan.inFlight : FanConnectSettles(name)
    \/ \E name \in fan.inFlight :
          \E failed \in BOOLEAN : FanCloseSettles(name, failed)

(***************************************************************************)
(* 4.J Session visibility (chat/slash-commands.ts): the tools the chat     *)
(* shows for a session.  A tool is a NamespacedTool with the required      *)
(* list of its inputSchema.                                                *)
(***************************************************************************)
RUN_TESTS == <<"r", "u", "n", "_", "t", "e", "s", "t", "s">>
LIST_TESTS == <<"l", "i", "s", "t", "_", "t", "e", "s", "t", "s">>
ANALYZE_COVERAGE ==
    <<"a", "n", "a", "l", "y", "z", "e", "_", "c", "o", "v", "e", "r", "a", "g", "e">>

\* CONFIG_PREREQUISITES[configTool]: the tools the config tool gates.
ConfigDependents(configTool) ==
    IF configTool = SET_PROJECT_ROOT
    THEN {RUN_TESTS, LIST_TESTS, ANALYZE_COVERAGE}
    ELSE {}

\* String.prototype.toLowerCase, for the letters of the model's names.
toLowerCase(str) ==
    [i \in DOMAIN str |-> IF str[i] = "L" THEN "l" ELSE str[i]]

ENTRY_KEYWORDS ==
    << CREATE, <<"l", "i", "s", "t">>,
       <<"s", "e", "a", "r", "c", "h">>,
       <<"g", "e", "t", "_", "s", "t", "a", "t", "u", "s">>,
       BOOTSTRAP >>

\* isEntryPointTool(tool)
isEntryPointTool(tool) ==
    \/ \E i \in DOMAIN ENTRY_KEYWORDS :
          Includes(toLowerCase(tool.namespacedName), ENTRY_KEYWORDS[i])
    \/ Len(tool.required) = 0

\* isDependentTool(tool)
isDependentTool(tool) ==
    \E i \in DOMAIN tool.required : EndsWith(tool.required[i], UNDERSCORE_ID)

\* getRequiredIdParams(tool)
getRequiredIdParams(tool) ==
    SelectSeq(tool.required, LAMBDA p : EndsWith(p, UNDERSCORE_ID))

hasCreated(s, prefix) == GetOrEmpty(s.created, prefix) # <<>>

hasId(s, paramName) == GetOrEmpty(s.idsByKey, paramName) # <<>>

hasConfigBeenCalled(s, toolName) == toolName \in s.configToolsCalled

\* isBlockedByConfig(tool, sessionState)
isBlockedByConfig(tool, s) ==
    LET stripped == stripNamespace(tool.namespacedName, tool.serverName,
                                   DEFAULT_SEPARATOR)
    IN  \E configTool \in CONFIG_PREREQUISITES :
           /\ stripped \in ConfigDependents(configTool)
           /\ ~hasConfigBeenCalled(s, configTool)

\* The body of the loop of getVisibleToolsEnhanced for one tool: TRUE when
\* the tool is pushed to visible, FALSE when hidden is incremented.
ShowsTool_EntryFirst(tool, s) ==
    IF isEntryPointTool(tool) THEN TRUE
    ELSE IF isBlockedByConfig(tool, s) THEN FALSE
    ELSE IF isDependentTool(tool)
    THEN LET requiredIds == getRequiredIdParams(tool) IN
         IF \A i \in DOMAIN requiredIds : hasId(s, requiredIds[i]) THEN TRUE
         ELSE hasCreated(s, extractPrefix(tool.namespacedName,
                                          tool.serverName))
    ELSE TRUE

ShowsTool(tool, s) ==
    IF isBlockedByConfig(tool, s) THEN FALSE
    ELSE IF isEntryPointTool(tool) THEN TRUE
    ELSE IF isDependentTool(tool)
    THEN LET requiredIds == getRequiredIdParams(tool) IN
         IF \A i \in DOMAIN requiredIds : hasId(s, requiredIds[i]) THEN TRUE
         ELSE hasCreated(s, extractPrefix(tool.namespacedName,
                                          tool.serverName))
    ELSE TRUE

\* getVisibleToolsEnhanced(tools, sessionState): { visible, hidden }.
RECURSIVE getVisibleToolsEnhanced(_, _)
getVisibleToolsEnhanced(tools, s) ==
    IF tools = <<>> THEN [visible |-> <<>>, hidden |-> 0]
    ELSE LET rest == getVisibleToolsEnhanced(Tail(tools), s) IN
         IF ShowsTool(Head(tools), s)
         THEN [rest EXCEPT !.visible = <<Head(tools)>> \o @]
         ELSE [rest EXCEPT !.hidden = @ + 1]

\* The catalog of the session: the tools of one upstream, s.
VisTool(originalName, required) ==
    [namespacedName |-> namespaceTool(SrvS, originalName, DEFAULT_SEPARATOR),
     originalName |-> originalName, serverName |-> SrvS,
     required |-> required]

PATH == <<"p", "a", "t", "h">>
TTT_PLAY == <<"t", "t", "t", "_", "p", "l", "a", "y">>
X_LIST == <<"x", "L", "i", "s", "t">>

VisTools ==
    << VisTool(CHESS_CREATE_GAME, <<>>),
       VisTool(CHESS_MAKE_MOVE, <<GAME_ID, FROM, TO>>),
       VisTool(TTT_PLAY, <<GAME_ID, PLAYER_ID>>),
       VisTool(X_LIST, <<GAME_ID>>),
       VisTool(SET_PROJECT_ROOT, <<PATH>>),
       VisTool(LIST_TESTS, <<PATH>>),
       VisTool(RUN_TESTS, <<>>) >>

\* What the tools of the model answer.
VisAnswers ==
    {PlainText,
     Text("object", <<Field(GAME_ID, "g1")>>),
     Text("object", <<Field(PLAYER_ID, "p1")>>)}

\* The tool calls of one session of the model.
MaxCalls == 3

NoVis == [calls |-> 0, shown |-> FALSE, seen |-> NewSession,
          visible |-> <<>>, hidden |-> 0]

VisIdleInit == vis = NoVis

\* A tool call of the agent loop has ended: the onToolCallEnd hook.
VisToolCalled(i, result, isError) ==
    /\ vis.calls < MaxCalls
    /\ session' = trackToolCallForSession(VisTools[i].namespacedName, result,
                                          isError, VisTools, session)
    /\ vis' = [vis EXCEPT !.calls = @ + 1]
    /\ UNCHANGED <<repl, outsideVis>>

\* "/tools": the visible tools of the session are listed.
ShowTools ==
    LET r == getVisibleToolsEnhanced(VisTools, session) IN
    /\ vis' = [vis EXCEPT !.shown = TRUE, !.seen = session,
                          !.visible = r.visible, !.hidden = r.hidden]
    /\ UNCHANGED <<session, repl, outsideVis>>

NextVis ==
    \/ \E i \in DOMAIN VisTools :
          \E result \in VisAnswers :
             \E isError \in BOOLEAN : VisToolCalled(i, result, isError)
    \/ ShowTools

(***************************************************************************)
(* 4.L Config discovery (config/discovery.ts).  A config file is Missing   *)
(* or holds a record of servers; a server config is the layer that wrote   *)
(* it and the state of its env record.                                     *)
(***************************************************************************)
SPIKE_LAND == "spike-land"
DiscNames == {"a", "b"}

Missing == [exists |-> FALSE, servers |-> <<>>]
ConfigFile(servers) == [exists |-> TRUE, servers |-> servers]

ServerEntry(name, layer, env) ==
    [k |-> name, v |-> [layer |-> layer, env |-> env]]

\* The files of the model at one path: missing, without servers (or not
\* valid, which loadConfigFile turns into no servers), or with one server.
FilesAt(layer) ==
    {Missing, ConfigFile(<<>>)}
    \cup {ConfigFile(<<ServerEntry(n, layer, env)>>) :
             n \in DiscNames, env \in {"none", "raw"}}

\* options.inlineServers and options.inlineUrls: undefined or a list.
InlineLists(layer) ==
    {Absent} \cup {Given(<<>>)}
    \cup {Given(<<ServerEntry(n, layer, "none")>>) : n \in DiscNames}

\* Object.assign(servers, loaded.servers)
RECURSIVE AssignAll(_, _)
AssignAll(servers, more) ==
    IF more = <<>> THEN servers
    ELSE AssignAll(MapSet(servers, Head(more).k, Head(more).v), Tail(more))

\* One "if (existsSync(path))" block of discoverConfig.
LoadLayer_KeepFirst(acc, path, file) ==
    IF ~file.exists THEN acc
    ELSE [servers |-> AssignAll(file.servers, acc.servers),
          configSources |->
              IF Len(file.servers) > 0
              THEN Append(acc.configSources, path) ELSE acc.configSources]

LoadLayer(acc, path, file) ==
    IF ~file.exists THEN acc
    ELSE [servers |-> AssignAll(acc.servers, file.servers),
          configSources |->
              IF Len(file.servers) > 0
              THEN Append(acc.configSources, path) ELSE acc.configSources]

\* The inline loops: servers[name] = ...
Inline(acc, list) ==
    IF list.present
    THEN [acc EXCEPT !.servers = AssignAll(@, list.value)]
    ELSE acc

\* expandEnvRecord over every config that has an env.
ExpandEnv(servers) ==
    [i \in DOMAIN servers |->
        [servers[i] EXCEPT !.v.env = IF @ = "raw" THEN "expanded" ELSE @]]

\* discoverConfig(options), with the files found at the three paths
\* (files.home, files.cwd, files.explicit) and whether stored tokens are
\* valid.
discoverConfig(files, opts, authenticated) ==
    LET l1 == LoadLayer([servers |-> <<>>, configSources |-> <<>>],
                        "home", files.home)
        l2 == IF opts.configPath.present
              THEN LoadLayer(l1, "explicit", files.explicit)
              ELSE LoadLayer(l1, "cwd", files.cwd)
        l3 == Inline(l2, opts.inlineServers)
        l4 == Inline(l3, opts.inlineUrls)
        expanded == ExpandEnv(l4.servers)
    IN  [servers |->
             IF ~MapHas(expanded, SPIKE_LAND) /\ authenticated
             THEN MapSet(expanded, SPIKE_LAND,
                         [layer |-> "auth", env |-> "token"])
             ELSE expanded,
         configSources |-> l4.configSources]

NoDiscovery ==
    [ran |-> FALSE, home |-> Missing, cwd |-> Missing, explicit |-> Missing,
     configPath |-> Absent, inlineServers |-> Absent, inlineUrls |-> Absent,
     authenticated |-> FALSE,
     resolved |-> [servers |-> <<>>, configSources |-> <<>>]]

DiscoveryIdleInit == disc = NoDiscovery

\* The run of discoverConfig at start-up.
Discover(files, opts, authenticated) ==
    /\ ~disc.ran
    /\ ~opts.configPath.present => files.explicit = Missing
    /\ disc' = [ran |-> TRUE, home |-> files.home, cwd |-> files.cwd,
                explicit |-> files.explicit,
                configPath |-> opts.configPath,
                inlineServers |-> opts.inlineServers,
                inlineUrls |-> opts.inlineUrls,
                authenticated |-> authenticated,
                resolved |-> discoverConfig(files, opts, authenticated)]
    /\ UNCHANGED outsideDiscovery

NextDiscovery ==
    \E home \in FilesAt("home"), cwd \in FilesAt("cwd"),
       explicit \in FilesAt("explicit"),
       configPath \in {Absent, Given(<<"c">>)},
       inlineServers \in InlineLists("inlineServers"),
       inlineUrls \in InlineLists("inlineUrls"),
       authenticated \in BOOLEAN :
          Discover([home |-> home, cwd |-> cwd, explicit |-> explicit],
                   [configPath |-> configPath,
                    inlineServers |-> inlineServers,
                    inlineUrls |-> inlineUrls],
                   authenticated)

(***************************************************************************)
(* The specifications.  Each one runs one component and leaves the others  *)
(* as they are after construction.                                         *)
(***************************************************************************)
(***************************************************************************)
(* 4.B Tool filter, one call of matchesGlob: glob holds the arguments and  *)
(* what the call did.                                                      *)
(***************************************************************************)
\* The longest name and the longest pattern of the model.
MaxGlobLen == 3

GlobNames == SeqsUpTo({"a", ".", "?"}, MaxGlobLen)
GlobPatterns == SeqsUpTo({"a", ".", "?", "*"}, MaxGlobLen)

NoGlob == [ran |-> FALSE, name |-> <<>>, pattern |-> <<>>,
           threw |-> FALSE, matched |-> FALSE]

GlobIdleInit == glob = NoGlob

MatchesGlob(name, pattern) ==
    /\ ~glob.ran
    /\ glob' = [ran |-> TRUE, name |-> name, pattern |-> pattern,
                threw |-> GlobThrows(pattern),
                matched |-> matchesGlob(name, pattern)]
    /\ UNCHANGED outsideGlob

NextGlob ==
    \E name \in GlobNames : \E pattern \in GlobPatterns :
        MatchesGlob(name, pattern)

(***************************************************************************)
(* 4.M Fuzzy matching (util/fuzzy.ts).  Scores are kept in half points     *)
(* (the score of the source times two), positions count from 1.            *)
(***************************************************************************)
\* String.prototype.toUpperCase, for the letters of the model's names.
toUpperCase(str) ==
    [i \in DOMAIN str |->
        CASE str[i] = "l" -> "L" [] str[i] = "x" -> "X" [] OTHER -> str[i]]

\* isWordBoundary(target, index), for an index past the first character.
isWordBoundary(target, index) ==
    LET prev == target[index - 1]
        curr == target[index]
    IN  \/ prev = "_" \/ prev = "-"
        \/ /\ <<prev>> = toLowerCase(<<prev>>)
           /\ <<curr>> = toUpperCase(<<curr>>)
           /\ <<curr>> # toLowerCase(<<curr>>)

\* The for loop of fuzzyScore from position ti on; st is [score, qi,
\* lastMatchIndex], lastMatchIndex 0 before the first match.
RECURSIVE FuzzyScan(_, _, _, _, _)
FuzzyScan(q, t, target, ti, st) ==
    IF ti > Len(t) \/ st.qi >= Len(q) THEN st
    ELSE IF t[ti] = q[st.qi + 1]
    THEN LET prefix == IF st.qi = 0 /\ ti = 1 THEN 10 ELSE 0
             boundary == IF ti > 1 /\ isWordBoundary(target, ti) THEN 4 ELSE 0
             run == IF st.lastMatchIndex = ti - 1 THEN 6
                    ELSE IF st.lastMatchIndex >= 1
                    THEN 0 - (ti - st.lastMatchIndex - 1)
                    ELSE 0
         IN  FuzzyScan(q, t, target, ti + 1,
                       [score |-> st.score + prefix + boundary + run + 2,
                        qi |-> st.qi + 1, lastMatchIndex |-> ti])
    ELSE FuzzyScan(q, t, target, ti + 1, st)

\* fuzzyScore(query, target), in half points.
fuzzyScore(query, target) ==
    IF query = <<>> \/ target = <<>> THEN 0
    ELSE LET q == toLowerCase(query)
             st == FuzzyScan(q, toLowerCase(target), target, 1,
                             [score |-> 0, qi |-> 0, lastMatchIndex |-> 0])
         IN  IF st.qi < Len(q) THEN 0 ELSE st.score

\* scored.sort((a, b) => b.score - a.score): stable, by score descending.
RECURSIVE InsertByScore(_, _)
InsertByScore(entry, sorted) ==
    IF sorted = <<>> THEN <<entry>>
    ELSE IF entry.score > Head(sorted).score THEN <<entry>> \o sorted
    ELSE <<Head(sorted)>> \o InsertByScore(entry, Tail(sorted))

RECURSIVE SortByScore(_)
SortByScore(scored) ==
    IF scored = <<>> THEN <<>>
    ELSE InsertByScore(scored[Len(scored)],
                       SortByScore(SubSeq(scored, 1, Len(scored) - 1)))

\* fuzzyFilter(query, items, getText), the items being their texts.
fuzzyFilter(query, items) ==
    IF query = <<>> THEN <<>>
    ELSE LET scored == SelectSeq(
                 [i \in DOMAIN items |->
                     [item |-> items[i], score |-> fuzzyScore(query, items[i])]],
                 LAMBDA entry : entry.score > 0)
             sorted == SortByScore(scored)
         IN  [i \in DOMAIN sorted |-> sorted[i].item]

\* The targets of the model: every text of two lower-case letters up to
\* MaxTargetLen, every text with an upper-case letter or a separator up to
\* MaxMixedLen.
MaxTargetLen == 7
MaxMixedLen == 3

FuzzyQueries == SeqsUpTo({"l", "L", "x"}, 2)
FuzzyTargets ==
    SeqsUpTo({"l", "x"}, MaxTargetLen)
    \cup SeqsUpTo({"l", "L", "_", "x"}, MaxMixedLen)

\* The candidate lists fuzzyFilter is given.
FilterTexts ==
    {<<"l", "x">>, <<"x", "l", "l", "l", "l", "l", "x">>, <<"x">>,
     <<"l", "_", "x">>}
FilterItems == SeqsUpTo(FilterTexts, 2)

NoFuzzy == [op |-> "none", query |-> <<>>, target |-> <<>>, score |-> 0,
            items |-> <<>>, kept |-> <<>>]

FuzzyIdleInit == fuzzy = NoFuzzy

FuzzyScore(query, target) ==
    /\ fuzzy.op = "none"
    /\ fuzzy' = [NoFuzzy EXCEPT !.op = "fuzzyScore", !.query = query,
                                !.target = target,
                                !.score = fuzzyScore(query, target)]
    /\ UNCHANGED outsideFuzzy

FuzzyFilter(query, items) ==
    /\ fuzzy.op = "none"
    /\ fuzzy' = [NoFuzzy EXCEPT !.op = "fuzzyFilter", !.query = query,
                                !.items = items,
                                !.kept = fuzzyFilter(query, items)]
    /\ UNCHANGED outsideFuzzy

NextFuzzy ==
    \/ \E query \in FuzzyQueries : \E target \in FuzzyTargets :
          FuzzyScore(query, target)
    \/ \E query \in FuzzyQueries : \E items \in FilterItems :
          FuzzyFilter(query, items)

PureIdleInit == GlobIdleInit /\ FuzzyIdleInit

MoreIdleInit ==
    RegistryIdleInit /\ WatcherIdleInit /\ FanIdleInit /\ VisIdleInit
    /\ DiscoveryIdleInit /\ PureIdleInit

NetIdleInit ==
    EdgeIdleInit /\ SchedulerIdleInit /\ HttpIdleInit /\ MoreIdleInit

Init == NsIdleInit /\ FleetInit /\ CatalogIdleInit /\ ChainInit /\ ConcInit
           /\ LoopIdleInit /\ ReplIdleInit /\ NetIdleInit

Spec == Init /\ [][Next]_vars

InitNs == NsInit /\ FleetInit /\ CatalogIdleInit /\ ChainInit /\ ConcInit
           /\ LoopIdleInit /\ ReplIdleInit /\ NetIdleInit

SpecNs == InitNs /\ [][NextNs]_vars

InitCatalog == NsIdleInit /\ FleetInit /\ CatalogInit /\ ChainInit /\ ConcInit
           /\ LoopIdleInit /\ ReplIdleInit /\ NetIdleInit

SpecCatalog == InitCatalog /\ [][NextCatalog]_vars

SpecCompose == Init /\ [][NextCompose]_vars

SpecConc == Init /\ [][NextConc]_vars

InitLoop ==
    NsIdleInit /\ FleetInit /\ CatalogIdleInit /\ ChainInit /\ ConcInit
    /\ LoopInit /\ ReplIdleInit /\ NetIdleInit

\* Each stream drain and each tool call completes.
SpecLoop == InitLoop /\ [][NextLoop]_vars /\ WF_vars(NextLoop)

InitRepl ==
    NsIdleInit /\ FleetInit /\ CatalogIdleInit /\ ChainInit /\ ConcInit
    /\ ReplLoopInit /\ ReplIdleInit /\ NetIdleInit

SpecRepl == InitRepl /\ [][NextRepl]_vars

InitEdge ==
    NsIdleInit /\ FleetInit /\ CatalogInit /\ ChainInit /\ ConcInit
    /\ LoopIdleInit /\ ReplIdleInit
    /\ EdgeInit /\ SchedulerIdleInit /\ HttpIdleInit /\ MoreIdleInit

SpecEdge == InitEdge /\ [][NextEdge]_vars

InitScheduler ==
    NsIdleInit /\ FleetInit /\ CatalogIdleInit /\ ChainInit /\ ConcInit
    /\ LoopIdleInit /\ ReplIdleInit
    /\ EdgeIdleInit /\ SchedulerInit /\ HttpIdleInit /\ MoreIdleInit

SpecScheduler == InitScheduler /\ [][NextScheduler]_vars

InitHttp ==
    NsIdleInit /\ FleetInit /\ CatalogIdleInit /\ ChainInit /\ ConcInit
    /\ LoopIdleInit /\ ReplIdleInit
    /\ EdgeIdleInit /\ SchedulerIdleInit /\ HttpInit /\ MoreIdleInit

SpecHttp == InitHttp /\ [][NextHttp]_vars

SpecRegistry == Init /\ [][NextRegistry]_vars

InitWatcher ==
    NsIdleInit /\ FleetInit /\ CatalogIdleInit /\ ChainInit /\ ConcInit
    /\ LoopIdleInit /\ ReplIdleInit
    /\ EdgeIdleInit /\ SchedulerIdleInit /\ HttpIdleInit
    /\ RegistryIdleInit /\ WatcherInit /\ FanIdleInit /\ VisIdleInit
    /\ DiscoveryIdleInit /\ PureIdleInit

SpecWatcher == InitWatcher /\ [][NextWatcher]_vars

SpecFan == Init /\ [][NextFan]_vars

SpecVis == Init /\ [][NextVis]_vars

SpecDiscovery == Init /\ [][NextDiscovery]_vars

SpecGlob == Init /\ [][NextGlob]_vars

SpecFuzzy == Init /\ [][NextFuzzy]_vars

(***************************************************************************)
(* C1: in prefixed mode, for every entry that getAllTools() returns for an *)
(* upstream, callTool(entry.namespacedName, args) invokes that entry's own *)
(* server, and no other, with that entry's original tool name.             *)
(***************************************************************************)
C1_EntryRoutedToOwnServer ==
    (lastCall.op = "callTool" /\ ~options.noPrefix) =>
        \A e \in lastCall.entries :
            e.serverName # Spike =>
                /\ lastCall.result.outcome = "forwarded"
                /\ lastCall.result.serverName = e.serverName
                /\ lastCall.result.toolName = e.originalName

(***************************************************************************)
(* C2: namespaced wire names are unique across the fleet: in prefixed      *)
(* mode no two entries of the catalog returned by getAllTools() (upstream  *)
(* tools and the spike meta-tools) share a namespacedName.                 *)
(***************************************************************************)
C2_WireNamesUnique ==
    ~options.noPrefix =>
        LET catalog == getAllTools(TheManager) IN
        \A i, j \in DOMAIN catalog :
            catalog[i].namespacedName = catalog[j].namespacedName => i = j

(***************************************************************************)
(* C9: with a toolset manager attached, after any sequence of loadToolset  *)
(* and unloadToolset calls (direct or through the meta-tools), the tools   *)
(* of a connected server are in the catalog iff the server belongs to no   *)
(* toolset or at least one toolset containing it is loaded.                *)
(***************************************************************************)
C9_CatalogFollowsToolsets ==
    toolsetManager.attached =>
        LET catalog == Range(getAllTools(TheManager))
            inSome(srv) == \E i \in DOMAIN Toolsets :
                              srv \in ServersOf(Toolsets[i].v)
            someLoaded(srv) == \E i \in DOMAIN Toolsets :
                                  /\ srv \in ServersOf(Toolsets[i].v)
                                  /\ Toolsets[i].k \in loadedToolsets
        IN  \A i \in DOMAIN upstreams :
                LET srv == upstreams[i].k
                    own == {e \in catalog : e.serverName = srv}
                    tools == Range(getFilteredTools(TheManager, srv,
                                                    upstreams[i].v))
                IN  IF ~inSome(srv) \/ someLoaded(srv)
                    THEN {e.originalName : e \in own} = tools
                    ELSE own = {}

\* SrvA is in T1 and T2, both were loaded, one has just been unloaded (by
\* the meta-tool), and the tools of SrvA are still in the catalog.
C9_SharedServerStaysVisible ==
    /\ toolsetManager.attached
    /\ lastCall.op = "callTool" /\ lastCall.wire = UNLOAD_TOOLSET
    /\ lastCall.loadedBefore = {"T1", "T2"}
    /\ loadedToolsets = {"T2"}
    /\ MapHas(upstreams, SrvA)
    /\ \E e \in Range(getAllTools(TheManager)) : e.serverName = SrvA

(***************************************************************************)
(* C3: Parse inverts Namespace: for every server name u, tool name t      *)
(* (the empty name included), separator s and known-server list K that    *)
(* contains u, Parse(Namespace(u, t, s), K, s) = (u, t).                   *)
(***************************************************************************)
C3_ParseInvertsNamespace ==
    nsOut.phase = "parsed" =>
        /\ nsOut.parsed.ok
        /\ nsOut.parsed.serverName = nsIn.u
        /\ nsOut.parsed.toolName = nsIn.t

(***************************************************************************)
(* C4: connectAll never fails because of a per-upstream failure, and once  *)
(* it returns every configured upstream is in exactly one of two states:   *)
(* connected (in the fleet) or reported as failed.                         *)
(***************************************************************************)
C4_ConnectedXorFailed ==
    lastOp.op = "connectAll" =>
        /\ ~lastOp.threw
        /\ \A u \in lastOp.configured :
              (u \in NamesOf(upstreams)) # (u \in lastOp.failed)

(***************************************************************************)
(* C5: when callers invoke fleet operations concurrently, the fleet that   *)
(* results from any interleaving equals the fleet produced by running      *)
(* those operations one at a time in some order.                           *)
(***************************************************************************)
C5_InterleavingIsSerial ==
    (\A i \in TaskIds : tasks[i].status = "done") =>
        FleetOf(upstreams) \in SerialFleets

(***************************************************************************)
(* C6: config diffs compose: applyConfigDiff(C1, C2) followed by           *)
(* applyConfigDiff(C2, C3) yields the same fleet (the same upstream names, *)
(* each connected under the same config) as a single                       *)
(* applyConfigDiff(C1, C3), every connect succeeding or failing alike in   *)
(* both.                                                                   *)
(***************************************************************************)
C6_DiffsCompose ==
    chain.phase = "done" =>
        FleetOf(upstreams) =
            FleetOf(applyConfigDiff(chain.base, chain.c1, currentConfig)
                        .e.upstreams)

\* Three different configs, both steps changed the fleet, and the second
\* step reconnected an upstream under a changed config.
C6_ChainWitness ==
    /\ chain.phase = "done"
    /\ chain.c1 # chain.c2 /\ chain.c2 # currentConfig
    /\ chain.c1 # currentConfig
    /\ FleetOf(chain.base.upstreams) # FleetOf(upstreams)
    /\ NamesOf(upstreams) = FleetNames
    /\ lastOp.changed # <<>> /\ lastOp.added # <<>>

(***************************************************************************)
(* C7: per applyConfigDiff call, every upstream whose config differs by    *)
(* value is closed exactly once and connected exactly once.                *)
(***************************************************************************)
C7_ClosedOnceConnectedOnce ==
    lastOp.op = "applyConfigDiff" =>
        \A u \in lastOp.differ :
            lastOp.closes[u] = 1 /\ lastOp.connects[u] = 1

(***************************************************************************)
(* C7, amended: per applyConfigDiff call, every upstream whose config      *)
(* differs by value has connect() called exactly once; it is closed        *)
(* exactly once if it was in the fleet when the call was made and not at   *)
(* all otherwise; it is listed in changed, and is in the fleet afterwards, *)
(* iff that connect succeeded.  An upstream of both configs that is in     *)
(* neither added nor removed; removed lists the names only the old config  *)
(* holds, and added only names that only the new config holds.             *)
(***************************************************************************)
C7_ReloadReconnectsChanged ==
    lastOp.op = "applyConfigDiff" =>
        /\ \A u \in lastOp.differ :
              /\ lastOp.connects[u] = 1
              /\ lastOp.closes[u] = (IF u \in lastOp.wasIn THEN 1 ELSE 0)
              /\ (u \in Range(lastOp.changed)) = (u \in NamesOf(upstreams))
              /\ (u \in NamesOf(upstreams)) =
                     ConnectOk(u, MapGet(currentConfig, u))
              /\ u \in NamesOf(upstreams) =>
                     MapGet(upstreams, u).config = MapGet(currentConfig, u)
              /\ u \notin Range(lastOp.added)
              /\ u \notin Range(lastOp.removed)
        /\ Range(lastOp.removed) = lastOp.oldNames \ lastOp.configured
        /\ Range(lastOp.added) \subseteq lastOp.configured \ lastOp.oldNames
        /\ Range(lastOp.changed) \subseteq lastOp.oldNames \cap lastOp.configured

\* {srv: v1} connected, then applyConfigDiff to {srv: v2}: changed is [srv],
\* added and removed are empty, one close and one connect.
C7_ReloadWitness ==
    /\ lastOp.op = "applyConfigDiff"
    /\ lastOp.oldNames = {SrvA} /\ lastOp.configured = {SrvA}
    /\ lastOp.differ = {SrvA} /\ lastOp.wasIn = {SrvA}
    /\ lastOp.added = <<>> /\ lastOp.removed = <<>>
    /\ lastOp.changed = <<SrvA>>
    /\ lastOp.closes[SrvA] = 1 /\ lastOp.connects[SrvA] = 1
    /\ MapGet(upstreams, SrvA).config = CfgV2

(***************************************************************************)
(* C8: applyConfigDiff(C, C) returns empty added, removed and changed      *)
(* lists and leaves the fleet unchanged: no upstream is closed, connected  *)
(* or replaced.                                                            *)
(***************************************************************************)
C8_SameConfigIsNoOp ==
    (lastOp.op = "applyConfigDiff" /\ lastOp.same) =>
        /\ lastOp.added = <<>> /\ lastOp.removed = <<>> /\ lastOp.changed = <<>>
        /\ lastOp.kept
        /\ lastOp.closes = NoCalls /\ lastOp.connects = NoCalls

\* applyConfigDiff(C, C) on a config of two upstreams, both in the fleet.
C8_SameConfigWitness ==
    /\ lastOp.op = "applyConfigDiff" /\ lastOp.same
    /\ lastOp.configured = FleetNames
    /\ lastOp.wasIn = FleetNames
    /\ NamesOf(upstreams) = FleetNames

(***************************************************************************)
(* C10: the agent loop terminates, having appended at most maxTurns + 1    *)
(* assistant messages to the message list (maxTurns is 20 when the caller  *)
(* gives none), whatever the LLM answers, provided each stream drain and   *)
(* each tool call completes.                                               *)
(***************************************************************************)
C10_LoopTerminates ==
    /\ <>(loop.pc = "done")
    /\ [](loop.pc \notin {"new", "ready"} =>
              AssistantAppended <= loop.maxTurns + 1)

\* The loop has run into the default cap: 20 assistant messages, each
\* with tool_use blocks.
C10_ReachedDefaultCap ==
    /\ loop.pc = "done" /\ loop.reachedMax
    /\ ~loop.given
    /\ loop.maxTurns = DEFAULT_MAX_TURNS
    /\ AssistantAppended = DEFAULT_MAX_TURNS


\* a is a prefix of b.
IsPrefix(a, b) == Len(a) <= Len(b) /\ SubSeq(b, 1, Len(a)) = a

\* Every list of the Map a is still in the Map b, as a prefix of b's.
MapExtends(a, b) ==
    \A i \in DOMAIN a :
        MapHas(b, a[i].k) /\ IsPrefix(a[i].v, MapGet(b, a[i].k))

\* The session b holds all that the session a holds, in the same order.
SessionExtends(a, b) ==
    /\ MapExtends(a.created, b.created)
    /\ MapExtends(a.idsByKey, b.idsByKey)
    /\ a.configToolsCalled \subseteq b.configToolsCalled

(***************************************************************************)
(* C11: within one agent turn the tool calls run in the order of the       *)
(* tool_use blocks and each returns before the next begins, so that a call *)
(* begins on the loaded toolsets and the session that the call before it   *)
(* left.                                                                   *)
(***************************************************************************)
C11_ToolCallsSerialInOrder ==
    \A k \in DOMAIN loop.trace :
        LET event == loop.trace[k] IN
        /\ event.kind = (IF k % 2 = 1 THEN "start" ELSE "end")
        /\ event.index = (k + 1) \div 2
        /\ (event.kind = "start" /\ k > 1) =>
              /\ event.loaded = loop.trace[k - 1].loaded
              /\ SessionExtends(loop.trace[k - 1].session, event.session)

\* A dependent call in one turn: the LLM asked for spike__load_toolset T1
\* and then for a__y, which was hidden when the turn began; a__y has been
\* forwarded to its upstream.
C11_DependentCallForwarded ==
    /\ loop.pc = "tool"
    /\ loop.toolUseBlocks = <<LoadT1, CallY>>
    /\ Len(loop.trace) = 3
    /\ loop.trace[1].loaded = {}
    /\ loop.trace[3].loaded = {"T1"}
    /\ loop.pending = {2}

(***************************************************************************)
(* C12: during a call of runAgentLoop the message list is append-only:     *)
(* every step taken while the call runs leaves the messages that were in   *)
(* the list where they were.                                               *)
(***************************************************************************)
C12_MessagesAppendOnly ==
    [][loop.pc \in {"stream", "tool"} => IsPrefix(messages, messages')]_vars

(***************************************************************************)
(* C14: a tool call that returned an error records nothing: the session    *)
(* (idsByKey, created, configToolsCalled) is after the call what it was    *)
(* before, for a direct slash invocation and for a call of the agent loop. *)
(***************************************************************************)
C14_ErrorsNotRecorded ==
    repl.returned.isError => repl.returned.after = repl.returned.before

(***************************************************************************)
(* C15: the SessionState is monotone: no step of the chat session removes  *)
(* or reorders an element of created[prefix], of idsByKey[k] or of         *)
(* configToolsCalled.                                                      *)
(***************************************************************************)
C15_SessionMonotone == [][SessionExtends(session, session')]_vars

\* Two creates have been recorded under one prefix, one after the other.
C15_IdsAccumulated ==
    \E i \in DOMAIN session.created : Len(session.created[i].v) >= 2

(***************************************************************************)
(* C16: identifier propagation: with a session that holds only what        *)
(* /chess_create_game left when it returned {"id":"game_abc"}, the call    *)
(* dispatched for /chess_make_move {"from":"e2","to":"e4"} has the         *)
(* arguments {game_id:"game_abc", from:"e2", to:"e4"}.                     *)
(***************************************************************************)
C16_IdentifierPropagation ==
    LET create == [namespacedName |->
                       namespaceTool(SrvS, CHESS_CREATE_GAME,
                                     DEFAULT_SEPARATOR),
                   originalName |-> CHESS_CREATE_GAME,
                   serverName |-> SrvS]
        afterCreate == TrackDirectToolCall(NewSession, create, GameAbc, FALSE)
    IN  (/\ repl.dispatched.made
         /\ repl.dispatched.name
               = namespaceTool(SrvS, CHESS_MAKE_MOVE, DEFAULT_SEPARATOR)
         /\ repl.dispatched.userArgs = Moves
         /\ repl.dispatched.seen = afterCreate)
        => Range(repl.dispatched.args)
               = {[k |-> GAME_ID, v |-> "game_abc"],
                  [k |-> FROM, v |-> "e2"], [k |-> TO, v |-> "e4"]}

(***************************************************************************)
(* C13: whenever an error is raised while a downstream tools/call is       *)
(* served (the manager threw, or the upstream call failed), the reply is a *)
(* CallResult with isError true and the single text block                  *)
(* "Error: <message>", never a protocol fault, on stdio, HTTP and SSE.     *)
(***************************************************************************)
C13_ErrorsBecomeResults ==
    edge.reply.raised =>
        /\ edge.reply.kind = "result"
        /\ edge.reply.isError
        /\ edge.reply.content =
              <<TextBlock(<<"Error: ", edge.reply.message>>)>>

\* The stdio server answered a call that the manager refused because the
\* toolset of the server is not loaded.
C13_StdioCallRefused ==
    /\ edge.transport = "stdio"
    /\ edge.reply.raised
    /\ edge.reply.message = "Tool not found (toolset not loaded)"
    /\ edge.reply.kind = "result"

(***************************************************************************)
(* C17: per upstream and failure episode the reconnect function is called  *)
(* at most maxAttempts times, once the cap is reached no timer remains     *)
(* pending for that upstream, and a successful attempt leaves no attempt   *)
(* record.                                                                 *)
(***************************************************************************)
C17_GivesUpAtCap ==
    \A n \in ReconnectNames :
        /\ sched.invoked[n] <= sched.maxAttempts
        /\ sched.episode[n] = "gaveUp" =>
              \A timer \in sched.armed \cup sched.running : timer.name # n
        /\ (sched.last.event = "reconnected" /\ sched.last.name = n) =>
              ~MapHas(sched.activeRetries, n)

(***************************************************************************)
(* C18: when cancelAll() has returned, no timer installed by               *)
(* scheduleReconnect is armed, whatever calls and firings preceded it.     *)
(***************************************************************************)
C18_CancelAllClearsTimers ==
    sched.last.event = "cancelAll" => sched.armed = {}

(***************************************************************************)
(* C19: in the serve program, an upstream whose connect failed in          *)
(* connectAll, or whose transport closed afterwards, has a reconnect       *)
(* scheduled with the reconnect scheduler.                                 *)
(***************************************************************************)
C19_LossSchedulesReconnect ==
    \A n \in lastOp.failed \cup edge.down :
        MapHas(sched.activeRetries, n) \/ sched.invoked[n] > 0

(***************************************************************************)
(* C20: every session id the HTTP server gave to a client is a key of the  *)
(* session map, for the transport that generated it, until a DELETE for    *)
(* it; a POST or GET carrying it is served by that transport, without a    *)
(* new transport being created and without the request being rejected.     *)
(***************************************************************************)
C20_SessionRecorded ==
    /\ \A sid \in http.issued :
          (\A i \in DOMAIN http.objects :
              http.objects[i].sessionId = sid => ~http.objects[i].closed)
          => /\ MapHas(http.transports, sid)
             /\ http.objects[MapGet(http.transports, sid)].sessionId = sid
    /\ (http.last.method \in {"POST", "GET"}
        /\ http.last.header \in http.issued
        /\ http.last.status # 200)
       => \E i \in DOMAIN http.objects :
             http.objects[i].sessionId = http.last.header
             /\ (http.objects[i].closed \/ http.last.transport = i)

(***************************************************************************)
(* C21: with an apiKey configured, a /mcp request whose X-Api-Key header   *)
(* is missing or differs from the key is answered 401 and reaches no       *)
(* session transport; a request with the matching key is not answered      *)
(* 401; GET /health is answered 200 whatever the header.                   *)
(***************************************************************************)
C21_ApiKeyGuardsMcp ==
    LET l == http.last
        matches == l.provided.present /\ l.provided.value = http.apiKey.value
    IN  /\ (http.apiKey.present /\ l.path = "/mcp" /\ ~matches)
           => l.status = 401 /\ l.transport = 0 /\ ~l.created
        /\ (http.apiKey.present /\ l.path = "/mcp" /\ matches)
           => l.status # 401
        /\ l.path = "/health" => l.status = 200

(***************************************************************************)
(* C22: when the shutdown of serve has exited, it has closed every session *)
(* transport, then the upstreams of the fleet, then exited with code 0, in *)
(* that order.                                                             *)
(***************************************************************************)
C22_ShutdownInOrder ==
    /\ http.phase # "serving"
       => \A i \in DOMAIN http.objects :
             http.objects[i].initialized => http.objects[i].closed
    /\ http.phase \in {"fleetClosed", "exited"} => upstreams = <<>>
    /\ http.phase = "exited"
       => http.log = <<"transports", "upstreams", "exit 0">>

(***************************************************************************)
(* C23: after refreshFromRemote the registry is either the remote list     *)
(* with both indices rebuilt from it (every slug and every tool name of    *)
(* the list maps to the last app that carries it, and nothing else is      *)
(* indexed), or, on a failure, the registry and both indices are what they *)
(* were before the call.                                                   *)
(***************************************************************************)
C23_RefreshAtomic ==
    LET before == registry.last.before
        after == registry.impl
        answer == registry.last.answer
        LastWith(has(_)) ==
            after.apps[CHOOSE i \in DOMAIN after.apps :
                          /\ has(after.apps[i])
                          /\ \A j \in DOMAIN after.apps :
                                has(after.apps[j]) => j <= i]
        slugs == {after.apps[i].slug : i \in DOMAIN after.apps}
        tools == UNION {Range(after.apps[i].toolNames) :
                           i \in DOMAIN after.apps}
        rebuilt ==
            /\ after.apps = answer.apps
            /\ Range(MapKeys(after.slugToApp)) = slugs
            /\ Range(MapKeys(after.toolToApp)) = tools
            /\ \A s \in slugs :
                  MapGet(after.slugToApp, s)
                      = LastWith(LAMBDA app : app.slug = s)
            /\ \A t \in tools :
                  MapGet(after.toolToApp, t)
                      = LastWith(LAMBDA app : t \in Range(app.toolNames))
    IN  registry.last.done
        => /\ (answer.kind # "array" \/ answer.apps = <<>>) => after = before
           /\ after = before \/ rebuilt

(***************************************************************************)
(* C24: every reload of the config watcher is fired by the last event of a *)
(* burst (no event follows it within less than the debounce interval),     *)
(* exactly the interval after that event; no event fires two reloads; a    *)
(* last event whose interval has passed has fired its reload unless the    *)
(* watcher was stopped; and each reload is delivered to the change sink at *)
(* most once, exactly once when its discovery has resolved.                *)
(***************************************************************************)
C24_BurstCollapses ==
    LET w == watcher
        n == Len(w.events)
        gapAfter(i) == w.events[i + 1] - w.events[i]
        lastOfBurst(i) == i = n \/ gapAfter(i) >= w.debounceMs
        closesBurst(i) == i = n \/ gapAfter(i) > w.debounceMs
        firedBy(i) == {k \in DOMAIN w.reloads : w.reloads[k].event = i}
    IN  /\ \A k \in DOMAIN w.reloads :
              /\ w.reloads[k].event \in 1..n
              /\ (w.reloads[k].event < n
                  => gapAfter(w.reloads[k].event) >= w.debounceMs)
              /\ w.reloads[k].at
                     = w.events[w.reloads[k].event] + w.debounceMs
        /\ \A i \in 1..n : Cardinality(firedBy(i)) <= 1
        /\ \A i \in 1..n :
              (closesBurst(i) /\ ~w.stopped
               /\ w.now > w.events[i] + w.debounceMs)
              => Cardinality(firedBy(i)) = 1
        /\ Len(w.delivered) + Cardinality(w.running) = Len(w.reloads)
        /\ \A k \in DOMAIN w.reloads :
              Cardinality({d \in DOMAIN w.delivered :
                              w.delivered[d].reload = k})
                  = IF k \in w.running THEN 0 ELSE 1

\* A burst of three events, each less than the interval after the one
\* before, has fired one reload, which was delivered.
C24_BurstOfThree ==
    /\ Len(watcher.events) = 3
    /\ watcher.events[2] - watcher.events[1] < watcher.debounceMs
    /\ watcher.events[3] - watcher.events[2] < watcher.debounceMs
    /\ watcher.events[2] > watcher.events[1]
    /\ watcher.events[3] > watcher.events[2]
    /\ Len(watcher.reloads) = 1
    /\ Len(watcher.delivered) = 1
    /\ watcher.debounceMs = DEFAULT_DEBOUNCE_MS

(***************************************************************************)
(* C25: during connectAll and closeAll every upstream whose operation has  *)
(* not settled is in flight, whatever the others do; the call returns only *)
(* when all have settled; the failures reported are exactly those of the   *)
(* upstreams whose connect failed (each one whatever became of the         *)
(* others), and an upstream that connected is in the fleet as soon as its  *)
(* own connect settled.                                                    *)
(***************************************************************************)
C25_AllInParallel ==
    LET names == Range(MapKeys(fan.entries))
        settled == Range(fan.settled)
    IN  /\ fan.inFlight = names \ settled
        /\ settled \subseteq names
        /\ fan.returned <=> settled = names
        /\ fan.reported \subseteq settled
        /\ fan.op = "connectAll"
           => /\ fan.reported
                  = {n \in settled : ~ConnectOk(n, MapGet(fan.entries, n))}
              /\ \A n \in settled \ fan.reported : MapHas(upstreams, n)
        /\ (fan.op = "closeAll" /\ ~fan.returned)
           => Range(MapKeys(upstreams)) = names

\* Of three connects in flight the last one has settled, the first two
\* have not; the one that settled is in the fleet.
C25_SlowDoesNotBlock ==
    /\ fan.op = "connectAll"
    /\ Len(fan.entries) = 3
    /\ fan.settled = <<SrvB>>
    /\ fan.inFlight = {SrvA, SrvA_}
    /\ MapHas(upstreams, SrvB)
    /\ ~fan.returned

(***************************************************************************)
(* C26: the tool list sent with each streaming chat request of the agent   *)
(* loop is the fleet catalog as it is when that request is made.           *)
(***************************************************************************)
C26_ToolsFollowCatalog ==
    loop.pc # "new" => loop.sent = loop.catalog

\* The step of a callTool in prefixed mode for a tool that is not a
\* meta-tool, against the fleet and the toolsets it was called on.
PrefixedCallClassified ==
    LET wire == lastCall'.wire
        r == lastCall'.result
        matching == {i \in DOMAIN upstreams :
                        StartsWith(wire, upstreams[i].k \o options.separator)}
        parsed == parseNamespacedTool(wire, MapKeys(upstreams),
                                      options.separator)
        owner == parsed.serverName
        notLoaded ==
            /\ toolsetManager.attached
            /\ \E i \in DOMAIN Toolsets : owner \in ServersOf(Toolsets[i].v)
            /\ \A i \in DOMAIN Toolsets :
                  owner \in ServersOf(Toolsets[i].v)
                  => Toolsets[i].k \notin loadedToolsets
        offered == Range(getFilteredTools(TheManager, owner,
                                          MapGet(upstreams, owner)))
        failsWith(error) ==
            /\ r.outcome = "thrown" /\ r.error = error
            /\ r.serverName = <<>> /\ r.isError
    IN  (/\ lastCall' # lastCall
         /\ lastCall'.op = "callTool"
         /\ ~options.noPrefix
         /\ ~(toolsetManager.attached /\ isMetaTool(wire)))
        => /\ UNCHANGED <<upstreams, loadedToolsets>>
           /\ IF matching = {} THEN failsWith("Cannot resolve tool")
              ELSE /\ parsed.ok
                   /\ \E i \in matching : upstreams[i].k = owner
                   /\ IF notLoaded
                      THEN failsWith("Tool not found (toolset not loaded)")
                      ELSE IF parsed.toolName \notin offered
                      THEN failsWith("Tool not found")
                      ELSE /\ r.outcome = "forwarded"
                           /\ r.serverName = owner
                           /\ r.toolName = parsed.toolName

(***************************************************************************)
(* C27: in prefixed mode a call of a tool that is not a meta-tool fails    *)
(* with "Cannot resolve tool" when no connected server's prefix begins the *)
(* wire name; else with "toolset not loaded" when the server the name      *)
(* resolves to belongs to toolsets of which none is loaded; else with      *)
(* "Tool not found" when that server does not advertise the tool or its    *)
(* filter removes it; only otherwise is the call forwarded, to that server *)
(* and tool.  A call that failed was forwarded to no upstream and changed  *)
(* neither the fleet nor the loaded toolsets.                              *)
(***************************************************************************)
C27_FailuresInOrder == [][PrefixedCallClassified]_vars

\* A call of a tool that SrvA does not advertise, while SrvA is hidden by
\* its toolsets: it failed as "toolset not loaded".
C27_HiddenBeforeNotFound ==
    /\ lastCall.op = "callTool"
    /\ ~options.noPrefix
    /\ toolsetManager.attached
    /\ lastCall.wire = <<"a", "_", "_", "z">>
    /\ MapHas(upstreams, SrvA)
    /\ loadedToolsets = {}
    /\ lastCall.result.error = "Tool not found (toolset not loaded)"

C29_FiveLayersMerged ==
    LET InFile(file, n) == file.exists /\ MapHas(file.servers, n)
        InList(list, n) == list.present /\ MapHas(list.value, n)
        last(n) ==
            IF InList(disc.inlineUrls, n) THEN "inlineUrls"
            ELSE IF InList(disc.inlineServers, n) THEN "inlineServers"
            ELSE IF InFile(disc.explicit, n) THEN "explicit"
            ELSE IF InFile(disc.cwd, n) THEN "cwd"
            ELSE IF InFile(disc.home, n) THEN "home"
            ELSE "none"
    IN  disc.ran
        => \A n \in DiscNames :
              IF last(n) = "none" THEN ~MapHas(disc.resolved.servers, n)
              ELSE /\ MapHas(disc.resolved.servers, n)
                   /\ MapGet(disc.resolved.servers, n).layer = last(n)

\* C29 as the code has it: the project layer is the file at the explicit
\* path when one is given, and <cwd>/.mcp.json otherwise; the resolved
\* config holds every upstream that the layers read define, as the last of
\* them defined it.
C29_ExplicitReplacesCwd ==
    LET InFile(file, n) == file.exists /\ MapHas(file.servers, n)
        InList(list, n) == list.present /\ MapHas(list.value, n)
        project == IF disc.configPath.present THEN disc.explicit ELSE disc.cwd
        last(n) ==
            IF InList(disc.inlineUrls, n) THEN "inlineUrls"
            ELSE IF InList(disc.inlineServers, n) THEN "inlineServers"
            ELSE IF InFile(project, n)
                 THEN IF disc.configPath.present THEN "explicit" ELSE "cwd"
            ELSE IF InFile(disc.home, n) THEN "home"
            ELSE "none"
    IN  disc.ran
        => \A n \in DiscNames :
              IF last(n) = "none" THEN ~MapHas(disc.resolved.servers, n)
              ELSE /\ MapHas(disc.resolved.servers, n)
                   /\ MapGet(disc.resolved.servers, n).layer = last(n)

\* With an explicit path: "a" of the home file is redefined by the explicit
\* file, and "b", defined by <cwd>/.mcp.json alone, is not in the result.
C29_ExplicitOverHome ==
    /\ disc.ran
    /\ disc.configPath.present
    /\ MapHas(disc.home.servers, "a")
    /\ MapHas(disc.explicit.servers, "a")
    /\ MapHas(disc.cwd.servers, "b")
    /\ ~disc.inlineServers.present
    /\ ~disc.inlineUrls.present
    /\ MapGet(disc.resolved.servers, "a").layer = "explicit"
    /\ ~MapHas(disc.resolved.servers, "b")

(***************************************************************************)
(* C30: in the messages of one run of the agent loop, every assistant      *)
(* message with tool_use blocks is followed, once its turn has ended, by   *)
(* exactly one user message of tool_result blocks, and no other such       *)
(* message exists; the blocks of that message are the results of the       *)
(* turn's tool_use blocks, one for each, in their order; a run of one      *)
(* tool_use turn and one text-only turn leaves exactly four messages:      *)
(* prompt, assistant tool_use, user tool_result, assistant text.           *)
(***************************************************************************)
C30_OneResultMessagePerToolTurn ==
    LET n == Len(messages)
        own == loop.first..n
        toolUse == Message("assistant", "tool_use")
        toolResult == Message("user", "tool_result")
        ids == [j \in DOMAIN loop.toolResults |->
                   loop.toolResults[j].tool_use_id]
    IN  loop.pc \notin {"new", "ready"}
        => /\ messages[loop.first] = Message("user", "prompt")
           /\ \A k \in own :
                 (messages[k] = toolUse /\ k < n)
                 => messages[k + 1] = toolResult
           /\ \A k \in own :
                 messages[k] = toolResult
                 => k > loop.first /\ messages[k - 1] = toolUse
           /\ messages[n] = toolResult
              => /\ loop.toolUseBlocks # <<>>
                 /\ ids = [j \in DOMAIN loop.toolUseBlocks |-> j]
           /\ messages[n] = toolUse
              => /\ Len(ids) <= Len(loop.toolUseBlocks)
                 /\ ids = [j \in DOMAIN ids |-> j]
           /\ (loop.pc = "done" /\ ~loop.reachedMax /\ loop.turn = 1)
              => SubSeq(messages, loop.first, n)
                     = << Message("user", "prompt"), toolUse, toolResult,
                          Message("assistant", "text") >>

\* One turn with one tool_use block, then a text-only turn, after an
\* earlier line of the chat: the four messages of the run, the tool_result
\* message holding the one result.
C30_FourMessages ==
    /\ loop.pc = "done" /\ ~loop.reachedMax /\ loop.turn = 1
    /\ loop.first = Len(EarlierHistory) + 1
    /\ Len(messages) - loop.first + 1 = 4
    /\ Len(loop.toolUseBlocks) = 1
    /\ loop.toolResults = <<[tool_use_id |-> 1, is_error |-> FALSE]>>
    /\ messages[Len(messages)] = Message("assistant", "text")

\* A step of the scheduler between a cancelAll() and the next call of
\* scheduleReconnect from outside: no timer fires into reconnectFn and no
\* timer is installed.
QuietAfterCancelAll ==
    (sched.cancelled /\ sched'.cancelled)
    => /\ sched'.invoked = sched.invoked
       /\ sched'.armed \subseteq sched.armed
       /\ sched'.nextTimer = sched.nextTimer

(***************************************************************************)
(* C33: from the return of cancelAll() until scheduleReconnect is called   *)
(* again from outside, the scheduler calls the reconnect function no more  *)
(* and installs no timer, also when a reconnect attempt that was in flight *)
(* at the cancelAll fails afterwards.                                      *)
(***************************************************************************)
C33_QuietAfterCancel == [][QuietAfterCancelAll]_vars

(***************************************************************************)
(* C34: every armed timer of the scheduler is the timer recorded for its   *)
(* upstream in the retry table; so there is at most one armed timer per    *)
(* upstream, cancelAll reaches it and pendingReconnects counts it.         *)
(***************************************************************************)
C34_OneRecordedTimerPerName ==
    /\ \A t \in sched.armed :
          /\ MapHas(sched.activeRetries, t.name)
          /\ MapGet(sched.activeRetries, t.name).timer = t.id
    /\ \A t, u \in sched.armed : t.name = u.name => t = u
    /\ Cardinality(sched.armed) <= Len(sched.activeRetries)


(* C35: when two debounced reloads run in succession, onChange receives    *)
(* their configs in the order in which the reloads began: the config       *)
(* delivered last is that of the later reload, however long each           *)
(* discoverConfig takes.                                                   *)
C35_LaterReloadDeliveredLast ==
    \A i, j \in 1..Len(watcher.delivered) :
        i < j => watcher.delivered[i].reload < watcher.delivered[j].reload

\* A step of a stopped watcher calls onChange no more.
SilentAfterStop ==
    watcher.stopped => watcher'.delivered = watcher.delivered

(* C36: after ConfigWatcher.stop() has returned onChange is never invoked  *)
(* again, even when a reload was awaiting discoverConfig at the time of    *)
(* the stop.                                                               *)
C36_NoChangeAfterStop == [][SilentAfterStop]_vars


(* C37: whatever lines the chat REPL reads while an agent loop awaits its  *)
(* stream or a tool, "/clear" among them, in the shared message list every *)
(* assistant message of tool_use blocks that is not the last message is    *)
(* immediately followed by the user message of its tool_results, and every *)
(* user message of tool_results immediately follows the assistant message  *)
(* of the tool_use blocks it answers.                                      *)
C37_ToolUseNextToItsResults ==
    \A k \in 1..Len(messages) :
        /\ (messages[k] = Message("assistant", "tool_use") /\ k < Len(messages))
           => messages[k + 1] = Message("user", "tool_result")
        /\ messages[k] = Message("user", "tool_result")
           => k > 1 /\ messages[k - 1] = Message("assistant", "tool_use")


(* C38: for the fixed catalog of a session, every tool that "/tools"       *)
(* showed as visible is still visible after the tool calls made and the    *)
(* results recorded since, and the hidden count is no larger than it was.  *)
C38_VisibilityMonotone ==
    LET now == getVisibleToolsEnhanced(VisTools, session) IN
    vis.shown
    => /\ Range(vis.visible) \subseteq Range(now.visible)
       /\ now.hidden <= vis.hidden

\* After a listing that hid four tools, a call recorded game_id and a call
\* of set_project_root succeeded: fewer tools are hidden now, and the tools
\* that were listed are all still visible.
C38_CallsSinceListing ==
    LET now == getVisibleToolsEnhanced(VisTools, session) IN
    /\ vis.shown
    /\ vis.seen = NewSession
    /\ vis.visible # <<>>
    /\ vis.hidden > now.hidden
    /\ hasId(session, GAME_ID)
    /\ hasConfigBeenCalled(session, SET_PROJECT_ROOT)
    /\ now.hidden > 0


\* The clients of name n that the last operation connected: it calls
\* connect() for a name at most once, and a connect() that rejected is
\* either logged as failed or thrown by reconnect.
ConnectedByLastOp(n) ==
    IF \/ n \in lastOp.failed
       \/ (lastOp.op = "reconnect" /\ lastOp.threw /\ lastOp.name = n)
    THEN 0
    ELSE lastOp.connects[n]

(* C31: when a fleet operation has returned, every client it found in the *)
(* upstream map or connected itself is in the upstream map or has had      *)
(* close() called on it: per name, the clients held before plus the        *)
(* clients connected equal the clients closed plus the clients held now.   *)
C31_NoClientLeaked ==
    lastOp.op # "none"
    => \A n \in FleetNames :
          (IF n \in lastOp.wasIn THEN 1 ELSE 0) + ConnectedByLastOp(n)
              = lastOp.closes[n] + (IF MapHas(upstreams, n) THEN 1 ELSE 0)

(* C32: after every fleet operation has returned, whether it resolved or   *)
(* threw, the upstream map and the per-upstream config map hold the same   *)
(* names.                                                                  *)
C32_MapsHoldSameNames ==
    NamesOf(upstreams) = NamesOf(serverConfigs)


\* What an anchored pattern means when "*" (any characters, or none) is its
\* only wildcard and every other character stands for itself.
RECURSIVE StarIsOnlyWildcard(_, _)
StarIsOnlyWildcard(name, pattern) ==
    IF pattern = <<>> THEN name = <<>>
    ELSE IF Head(pattern) = "*"
         THEN \E k \in 0..Len(name) :
                  StarIsOnlyWildcard(SliceFrom(name, k), Tail(pattern))
         ELSE /\ name # <<>>
              /\ Head(name) = Head(pattern)
              /\ StarIsOnlyWildcard(Tail(name), Tail(pattern))

(* C39: matchesGlob(name, pattern) returns whether the whole name matches  *)
(* the pattern with "*" as the only wildcard and every other character,    *)
(* regular-expression metacharacters included, standing for itself; so a   *)
(* pattern without "*" matches the identical name and no other.            *)
C39_StarIsOnlyWildcard ==
    glob.ran
    => /\ ~glob.threw
       /\ glob.matched = StarIsOnlyWildcard(glob.name, glob.pattern)
       /\ ("*" \notin Range(glob.pattern))
          => (glob.matched = (glob.name = glob.pattern))

\* Every character of q, in order, at increasing positions of t.
MatchedInOrder(q, t) ==
    \E f \in [DOMAIN q -> DOMAIN t] :
        /\ \A i, j \in DOMAIN q : i < j => f[i] < f[j]
        /\ \A i \in DOMAIN q : t[f[i]] = q[i]

FullyMatches(query, target) ==
    /\ query # <<>>
    /\ MatchedInOrder(toLowerCase(query), toLowerCase(target))

(* C40: fuzzyScore(q, t) is greater than 0 whenever q is not empty and     *)
(* every character of q is matched in order in t, and it is 0 only when    *)
(* some character of q is not matched; fuzzyFilter keeps every candidate   *)
(* that fully matches the query.                                           *)
C40_FullMatchScoresPositive ==
    /\ fuzzy.op = "fuzzyScore"
       => (FullyMatches(fuzzy.query, fuzzy.target) <=> fuzzy.score > 0)
    /\ fuzzy.op = "fuzzyFilter"
       => \A i \in DOMAIN fuzzy.items :
             FullyMatches(fuzzy.query, fuzzy.items[i])
             => fuzzy.items[i] \in Range(fuzzy.kept)

=============================================================================
